---- MODULE Spec2Model ----
(***************************************************************************)
(* State-machine model of the simulated UNIX-style file system             *)
(* (fs_core/disk_manager.py, fs_core/dir_ops.py, fs_core/file_ops.py,      *)
(* user_management/user_auth.py).                                          *)
(*                                                                         *)
(* Conventions                                                             *)
(*  - Python lists are TLA+ sequences; Python index i is sequence index    *)
(*    i + 1 (operator At).                                                 *)
(*  - None is modelled by None == -1 for ids and by NullInode for an empty *)
(*    inode-table slot.                                                    *)
(*  - A data block is a sequence of block_size cells.  A cell is one byte  *)
(*    of file data or one unit of a pickled list (the list header, one     *)
(*    directory entry, one block id).  Lengths of pickled data are         *)
(*    therefore counted in cells: the header plus one cell per element.    *)
(*  - Timestamps (atime, mtime, ctime) are not modelled.                   *)
(*  - An OpenFileEntry holds a reference to an Inode object.  While the    *)
(*    object sits in inode_table the reference is "live" (ref = 0); when   *)
(*    the table drops the object (format_disk) the object lives on in      *)
(*    detached[ref].                                                       *)
(***************************************************************************)
EXTENDS Integers, Sequences, FiniteSets, TLC

\* ------------------------------------------------------------------ bounds
NumInodes == 3      \* num_inodes passed to format_disk
NumBlocks == 3      \* num_blocks passed to format_disk
BlockSize == 4      \* block_size passed to format_disk (cells per block)
LargeNumBlocks == 16 \* num_blocks of the large disk
LargeBlockSize == 8 \* block_size of the large disk
LinkNumInodes == 4 \* num_inodes of the disk with symbolic links
LinkNumBlocks == 4 \* num_blocks of the disk with symbolic links
MaxFds == 2         \* descriptors the session opens at the same time
MaxCalls == 5       \* calls made in one run of the whole interface
MaxCallsDir == 7    \* calls made in one run of the namespace operations
MaxCallsFile == 7   \* calls made in one run of the file operations
MaxCallsAlloc == 5  \* calls made in one run with the allocator calls
MaxCallsLarge == 4  \* calls made in one run on the large disk
MaxCallsLink == 4   \* calls made in one run on the disk with symbolic links
MaxCallsPersist == 5 \* calls made in one run that saves and reloads the disk
TinyBlockSize == 2  \* a block_size too small for the entries of the root
MaxCallsScarce == 5 \* calls made in one run on the disk with fewer blocks than inodes
MaxCallsRename == 5 \* calls made in one run that renames to names of any width
RenameBlockSize == 5 \* block_size of the disk whose root holds two short names
MaxCallsTrunc == 5  \* calls made in one run that opens files with indirect blocks
MaxCallsLogin == 5  \* calls made in one run that creates users and logs in
MaxCallsPerm == 4   \* calls made in one run that changes permissions and owners
MaxCallsCrypt == 5  \* calls made in one run that encrypts and compresses files
MaxCallsGrow == 6  \* calls made in one run that grows a file past its direct blocks
MaxCallsCwd == 6  \* calls made in one run that moves the cwd and removes directories
MaxCallsStale == 8  \* calls made in one run that formats under a session

\* ------------------------------------------------------- program constants
ROOT_UID == 0
GUEST_UID == 1000
DEFAULT_DIRECTORY_PERMISSIONS == 493   \* 0o755
DEFAULT_FILE_PERMISSIONS == 420        \* 0o644
SYMLINK_PERMISSIONS == 511             \* 0o777
ROOT_DIR_PERMISSIONS == 493            \* 0o755
MAX_NAME_LEN == 255
DIRECT_BLOCK_CAP == 12
SYMLINK_MAX_DEPTH == 40
INDEX_BYTES == 4

None == -1

\* user_auth.DEFAULT_USERS_DATA: the users a new UserAuthenticator knows
DEFAULT_USERS_DATA ==
    [username \in {"root", "guest"} |->
        [uid |-> IF username = "root" THEN ROOT_UID ELSE GUEST_UID,
         home_inode_id |-> None]]

VARIABLES
    superblock,         \* DiskManager.superblock
    inode_bitmap,       \* DiskManager.inode_bitmap      (TRUE = free)
    data_block_bitmap,  \* DiskManager.data_block_bitmap (TRUE = free)
    inode_table,        \* DiskManager.inode_table
    data_blocks,        \* DiskManager.data_blocks
    is_formatted,       \* DiskManager.is_formatted
    current_user,       \* UserAuthenticator.current_user (uid or None)
    cwd,                \* UserAuthenticator.current_user_cwd_inode_id
    open_files,         \* UserAuthenticator.current_user_open_files
    detached,           \* Inode objects referenced only by open-file entries
    users,              \* UserAuthenticator.users: username -> uid and home inode
    last,               \* the last call: operation, arguments, result
    calls               \* number of calls the run has left

diskVars == <<superblock, inode_bitmap, data_block_bitmap, inode_table,
              data_blocks, is_formatted>>
sessVars == <<current_user, cwd, open_files, detached, users>>
vars == <<superblock, inode_bitmap, data_block_bitmap, inode_table,
          data_blocks, is_formatted, current_user, cwd, open_files,
          detached, users, last, calls>>

\* --------------------------------------------------------------- utilities
At(s, i) == s[i + 1]
Min(a, b) == IF a < b THEN a ELSE b
Max(a, b) == IF a > b THEN a ELSE b
Range(s) == {s[i] : i \in 1..Len(s)}
Repeat(x, n) == [i \in 1..n |-> x]
Take(s, n) == SubSeq(s, 1, Min(n, Len(s)))
Drop(s, n) == SubSeq(s, n + 1, Len(s))
\* s[a:b] of Python
Slice(s, a, b) == SubSeq(s, Min(a, Len(s)) + 1, Min(b, Len(s)))
\* number of TRUE bits of a bitmap
CountTrue(bm) == Cardinality({i \in 1..Len(bm) : bm[i]})
\* list.index(True); None when absent
IndexOfTrue(bm) ==
    IF \E i \in 1..Len(bm) : bm[i]
    THEN (CHOOSE i \in 1..Len(bm) : bm[i] /\ \A j \in 1..(i - 1) : ~bm[j]) - 1
    ELSE None

\* ------------------------------------------------------------- data model
NullInode ==
    [id |-> None, type |-> "NONE", size |-> 0, blocks_count |-> 0,
     data_block_indices |-> <<>>, indirect_block_indices |-> <<>>,
     double_indirect_block_indices |-> <<>>, owner_uid |-> 0,
     group_id |-> 0, permissions |-> 0, link_count |-> 0,
     is_encrypted |-> FALSE, is_compressed |-> FALSE]

\* Inode.__init__
Inode(inode_id, file_type, owner_uid, permissions) ==
    [NullInode EXCEPT !.id = inode_id, !.type = file_type,
                      !.owner_uid = owner_uid, !.permissions = permissions,
                      !.link_count = 1]

\* Superblock.__init__; present = FALSE models superblock is None
NullSuperblock ==
    [present |-> FALSE, total_blocks |-> 0, total_inodes |-> 0,
     block_size |-> 0, free_blocks_count |-> 0, free_inodes_count |-> 0,
     root_inode_id |-> None]
Superblock(total_blocks, total_inodes, block_size) ==
    [present |-> TRUE, total_blocks |-> total_blocks,
     total_inodes |-> total_inodes, block_size |-> block_size,
     free_blocks_count |-> total_blocks, free_inodes_count |-> total_inodes,
     root_inode_id |-> None]

\* length of a name; LongName stands for any name of more than 255 chars,
\* WideName for a name of at most 255 characters that is long enough for
\* its pickled entry to take the room of two entries with short names
LongName == "LONG"
WideName == "WIDE"
NameLen(name) ==
    IF name = LongName THEN MAX_NAME_LEN + 1
    ELSE IF name = WideName THEN MAX_NAME_LEN
    ELSE IF name = "" THEN 0 ELSE IF name = ".." THEN 2 ELSE 1

\* DirectoryEntry.__init__ (names never contain "/" in this model)
DirectoryEntryRaises(name) == NameLen(name) > MAX_NAME_LEN
DirectoryEntry(name, inode_id, is_hardlink) ==
    [name |-> name, inode_id |-> inode_id, is_hardlink |-> is_hardlink]

\* cells of a block
ByteCell(b) == [t |-> "byte", v |-> b, name |-> "", hl |-> FALSE]
ZeroCell == ByteCell(0)
ListCell(n) == [t |-> "list", v |-> n, name |-> "", hl |-> FALSE]
EntryCell(e) == [t |-> "entry", v |-> e.inode_id, name |-> e.name,
                 hl |-> e.is_hardlink]
IntCell(k) == [t |-> "int", v |-> k, name |-> "", hl |-> FALSE]
\* the rest of a pickled entry whose name does not fit in one cell
ContCell == [t |-> "cont", v |-> 0, name |-> "", hl |-> FALSE]
IsElementCell(c) == c.t # "cont"

\* the cells of the pickled entries: one per entry, two for a wide name
RECURSIVE EntryCells(_)
EntryCells(entries) ==
    IF entries = <<>> THEN <<>>
    ELSE <<EntryCell(Head(entries))>>
         \o (IF Head(entries).name = WideName THEN <<ContCell>> ELSE <<>>)
         \o EntryCells(Tail(entries))

\* pickle.dumps of a list of DirectoryEntry / of a list of block ids; the
\* first cell holds the number of cells that follow
PickleEntries(entries) == <<ListCell(Len(EntryCells(entries)))>> \o EntryCells(entries)
PickleIds(ids) ==
    <<ListCell(Len(ids))>> \o [i \in 1..Len(ids) |-> IntCell(ids[i])]

\* pickle.loads of the content of a block: the pickled list when the block
\* starts with a complete pickle of elements of the expected kind, an
\* UnpicklingError otherwise (bytes after the pickle are ignored)
PickleOk(data, kind) ==
    /\ Len(data) >= 1
    /\ data[1].t = "list"
    /\ Len(data) >= data[1].v + 1
    /\ \A i \in 2..(data[1].v + 1) :
          data[i].t = kind \/ (kind = "entry" /\ data[i].t = "cont")
\* the elements of a pickled list: its cells without the continuations
Elements(data) == SelectSeq(SubSeq(data, 2, data[1].v + 1), IsElementCell)
EntriesOfCells(cells) ==
    [i \in 1..Len(cells) |-> DirectoryEntry(cells[i].name, cells[i].v, cells[i].hl)]
UnpickleEntries(data) == EntriesOfCells(Elements(data))
UnpickleIds(data) == [i \in 1..data[1].v |-> data[i + 1].v]

\* the DiskManager as one value
Disk ==
    [sb |-> superblock, ibm |-> inode_bitmap, dbm |-> data_block_bitmap,
     it |-> inode_table, blk |-> data_blocks, fmt |-> is_formatted]
SetDisk(D) ==
    /\ superblock' = D.sb
    /\ inode_bitmap' = D.ibm
    /\ data_block_bitmap' = D.dbm
    /\ inode_table' = D.it
    /\ data_blocks' = D.blk
    /\ is_formatted' = D.fmt

\* ------------------------------------------------------------ DiskManager
\* DiskManager.__init__
NewDisk ==
    [sb |-> NullSuperblock, ibm |-> <<>>, dbm |-> <<>>, it |-> <<>>,
     blk |-> <<>>, fmt |-> FALSE]

\* _initialize_storage that keeps the data blocks of a disk of the same shape
InitializeStorage_KeepBlocks(num_inodes, num_blocks, block_size) ==
    [sb |-> Superblock(num_blocks, num_inodes, block_size),
     ibm |-> Repeat(TRUE, num_inodes),
     dbm |-> Repeat(TRUE, num_blocks),
     it |-> Repeat(NullInode, num_inodes),
     blk |-> IF Len(data_blocks) = num_blocks /\ superblock.block_size = block_size
             THEN data_blocks
             ELSE Repeat(Repeat(ZeroCell, block_size), num_blocks),
     fmt |-> FALSE]

\* DiskManager._initialize_storage
InitializeStorage(num_inodes, num_blocks, block_size) ==
    [sb |-> Superblock(num_blocks, num_inodes, block_size),
     ibm |-> Repeat(TRUE, num_inodes),
     dbm |-> Repeat(TRUE, num_blocks),
     it |-> Repeat(NullInode, num_inodes),
     blk |-> Repeat(Repeat(ZeroCell, block_size), num_blocks),
     fmt |-> FALSE]

\* DiskManager.allocate_inode: [d, ret]
AllocateInode(D) ==
    IF ~D.sb.present \/ D.sb.free_inodes_count = 0
    THEN [d |-> D, ret |-> None]
    ELSE LET i == IndexOfTrue(D.ibm) IN
         IF i = None THEN [d |-> D, ret |-> None]
         ELSE [d |-> [D EXCEPT !.ibm[i + 1] = FALSE,
                               !.sb.free_inodes_count = @ - 1],
               ret |-> i]

\* free_inode that leaves free_inodes_count as it is
FreeInode_NoCount(D, inode_id) ==
    IF ~D.sb.present \/ inode_id < 0 \/ inode_id >= D.sb.total_inodes
    THEN D
    ELSE IF ~D.ibm[inode_id + 1]
         THEN [D EXCEPT !.ibm[inode_id + 1] = TRUE,
                        !.it[inode_id + 1] = NullInode]
         ELSE D

\* DiskManager.free_inode
FreeInode(D, inode_id) ==
    IF ~D.sb.present \/ inode_id < 0 \/ inode_id >= D.sb.total_inodes
    THEN D
    ELSE IF ~D.ibm[inode_id + 1]
         THEN [D EXCEPT !.ibm[inode_id + 1] = TRUE,
                        !.sb.free_inodes_count = @ + 1,
                        !.it[inode_id + 1] = NullInode]
         ELSE D

\* DiskManager.allocate_data_block: [d, ret]
AllocateDataBlock(D) ==
    IF ~D.sb.present \/ D.sb.free_blocks_count = 0
    THEN [d |-> D, ret |-> None]
    ELSE LET b == IndexOfTrue(D.dbm) IN
         IF b = None THEN [d |-> D, ret |-> None]
         ELSE [d |-> [D EXCEPT !.dbm[b + 1] = FALSE,
                               !.sb.free_blocks_count = @ - 1],
               ret |-> b]

\* free_data_block without the test that the block is allocated
FreeDataBlock_Unguarded(D, block_id) ==
    IF ~D.sb.present \/ block_id < 0 \/ block_id >= D.sb.total_blocks
    THEN D
    ELSE [D EXCEPT !.dbm[block_id + 1] = TRUE,
                   !.sb.free_blocks_count = @ + 1]

\* DiskManager.free_data_block
FreeDataBlock(D, block_id) ==
    IF ~D.sb.present \/ block_id < 0 \/ block_id >= D.sb.total_blocks
    THEN D
    ELSE IF ~D.dbm[block_id + 1]
         THEN [D EXCEPT !.dbm[block_id + 1] = TRUE,
                        !.sb.free_blocks_count = @ + 1]
         ELSE D

\* for block_id in ids: free_data_block(block_id)
RECURSIVE FreeDataBlocks(_, _)
FreeDataBlocks(D, ids) ==
    IF ids = <<>> THEN D
    ELSE FreeDataBlocks(FreeDataBlock(D, Head(ids)), Tail(ids))

\* DiskManager.write_block: "IndexError", "ValueError" or "ok"
WriteBlockExc(D, block_id, data) ==
    IF ~D.sb.present \/ block_id < 0 \/ block_id >= D.sb.total_blocks
    THEN "IndexError"
    ELSE IF Len(data) > D.sb.block_size THEN "ValueError" ELSE "ok"
WriteBlock(D, block_id, data) ==
    IF WriteBlockExc(D, block_id, data) # "ok" THEN D
    ELSE [D EXCEPT !.blk[block_id + 1] =
              data \o Repeat(ZeroCell, D.sb.block_size - Len(data))]

\* DiskManager.read_block raises IndexError exactly when ReadBlockExc
ReadBlockExc(D, block_id) ==
    ~D.sb.present \/ block_id < 0 \/ block_id >= D.sb.total_blocks
ReadBlock(D, block_id) == D.blk[block_id + 1]

\* DiskManager.get_inode (NullInode for None)
GetInode(D, inode_id) ==
    IF inode_id = None THEN NullInode
    ELSE IF ~D.fmt \/ inode_id < 0 \/ ~D.sb.present
            \/ inode_id >= D.sb.total_inodes
         THEN NullInode
         ELSE D.it[inode_id + 1]
IsNone(inode) == inode.type = "NONE"


\* ------------------------------------------------------------ permissions
\* x & mask for a one-bit mask
HasBit(x, mask) == (x \div mask) % 2 = 1

\* permissions_utils._check_owner_permission
CheckOwnerPermission(inode, operation) ==
    IF operation = "read" THEN HasBit(inode.permissions, 256)
    ELSE IF operation = "write" THEN HasBit(inode.permissions, 128)
    ELSE IF operation = "execute" THEN HasBit(inode.permissions, 64)
    ELSE IF operation = "delete" THEN HasBit(inode.permissions, 128)
    ELSE FALSE

\* permissions_utils._check_other_permission
CheckOtherPermission(inode, operation) ==
    IF operation = "read" THEN HasBit(inode.permissions, 4)
    ELSE IF operation = "write" THEN HasBit(inode.permissions, 2)
    ELSE IF operation = "execute" THEN HasBit(inode.permissions, 1)
    ELSE IF operation = "delete" THEN HasBit(inode.permissions, 2)
    ELSE FALSE

\* permissions_utils.check_permission
CheckPermission(inode, user_uid, operation) ==
    IF user_uid = ROOT_UID THEN TRUE
    ELSE IF inode.owner_uid = user_uid
         THEN CheckOwnerPermission(inode, operation)
         ELSE CheckOtherPermission(inode, operation)

\* the argument rename_item passes as operation: the integer Permissions.WRITE
\* (0b010), which is none of the operation names
PermissionsWRITE == "0b010"

\* file_ops._check_permissions
FileOpsCheckPermissions(inode, uid, operation) ==
    IF uid = 0 THEN TRUE
    ELSE IF inode.owner_uid = uid
            /\ \/ (operation = "read" /\ HasBit(inode.permissions, 256))
               \/ (operation = "write" /\ HasBit(inode.permissions, 128))
               \/ (operation = "execute" /\ HasBit(inode.permissions, 64))
         THEN TRUE
         ELSE \/ (operation = "read" /\ HasBit(inode.permissions, 4))
              \/ (operation = "write" /\ HasBit(inode.permissions, 2))
              \/ (operation = "execute" /\ HasBit(inode.permissions, 1))

\* permissions_utils.check_access: a clear owner bit falls through to the
\* group triad (for group 0) and to the other triad
CheckAccess(inode, uid, operation) ==
    IF uid = 0 THEN TRUE
    ELSE IF inode.owner_uid = uid
            /\ \/ (operation = "read" /\ HasBit(inode.permissions, 256))
               \/ (operation = "write" /\ HasBit(inode.permissions, 128))
               \/ (operation = "execute" /\ HasBit(inode.permissions, 64))
         THEN TRUE
    ELSE IF inode.group_id = 0
            /\ \/ (operation = "read" /\ HasBit(inode.permissions, 32))
               \/ (operation = "write" /\ HasBit(inode.permissions, 16))
               \/ (operation = "execute" /\ HasBit(inode.permissions, 8))
         THEN TRUE
         ELSE \/ (operation = "read" /\ HasBit(inode.permissions, 4))
              \/ (operation = "write" /\ HasBit(inode.permissions, 2))
              \/ (operation = "execute" /\ HasBit(inode.permissions, 1))

\* permissions_utils.chmod: [d, ok]
Chmod(D, uid, target_inode_id, new_permissions) ==
    IF IsNone(GetInode(D, target_inode_id)) THEN [d |-> D, ok |-> FALSE]
    ELSE IF uid # 0 /\ uid # GetInode(D, target_inode_id).owner_uid
    THEN [d |-> D, ok |-> FALSE]
    ELSE IF ~(0 <= new_permissions /\ new_permissions <= 511)
    THEN [d |-> D, ok |-> FALSE]
    ELSE [d |-> [D EXCEPT !.it[target_inode_id + 1].permissions = new_permissions],
          ok |-> TRUE]

\* permissions_utils.chown: [d, ok]
Chown(D, uid, target_inode_id, new_owner_uid, new_group_id) ==
    IF IsNone(GetInode(D, target_inode_id)) THEN [d |-> D, ok |-> FALSE]
    ELSE IF uid # 0 THEN [d |-> D, ok |-> FALSE]
    ELSE IF new_owner_uid < 0 THEN [d |-> D, ok |-> FALSE]
    ELSE [d |-> [D EXCEPT !.it[target_inode_id + 1].owner_uid = new_owner_uid,
                          !.it[target_inode_id + 1].group_id =
                              IF new_group_id # None THEN new_group_id ELSE @],
          ok |-> TRUE]

\* permissions_utils.chgrp: [d, ok]
Chgrp(D, uid, target_inode_id, new_group_id) ==
    IF IsNone(GetInode(D, target_inode_id)) THEN [d |-> D, ok |-> FALSE]
    ELSE IF uid # 0 /\ uid # GetInode(D, target_inode_id).owner_uid
    THEN [d |-> D, ok |-> FALSE]
    ELSE IF new_group_id < 0 THEN [d |-> D, ok |-> FALSE]
    ELSE [d |-> [D EXCEPT !.it[target_inode_id + 1].group_id = new_group_id],
          ok |-> TRUE]

\* permissions_utils.set_permission on the inode object of the table: the
\* new value is stored as it is
SetPermission(D, inode_id, user_uid, new_permissions) ==
    IF user_uid # ROOT_UID /\ D.it[inode_id + 1].owner_uid # user_uid
    THEN [d |-> D, ok |-> FALSE]
    ELSE [d |-> [D EXCEPT !.it[inode_id + 1].permissions = new_permissions],
          ok |-> TRUE]

\* permissions_utils.change_owner on the inode object of the table
ChangeOwner(D, inode_id, current_user_uid, new_owner_uid) ==
    IF current_user_uid # ROOT_UID THEN [d |-> D, ok |-> FALSE]
    ELSE [d |-> [D EXCEPT !.it[inode_id + 1].owner_uid = new_owner_uid],
          ok |-> TRUE]

\* -------------------------------------------------------- directory layer
\* dir_ops._read_directory_entries: [ok, entries]; ok = FALSE models None
ReadDirectoryEntries(D, dir_inode_id) ==
    LET dir_inode == GetInode(D, dir_inode_id) IN
    IF IsNone(dir_inode) \/ dir_inode.type # "DIRECTORY"
    THEN [ok |-> FALSE, entries |-> <<>>]
    ELSE IF dir_inode.data_block_indices = <<>>
    THEN [ok |-> TRUE, entries |-> <<>>]
    ELSE LET block_id == dir_inode.data_block_indices[1] IN
         IF ReadBlockExc(D, block_id)
         THEN [ok |-> FALSE, entries |-> <<>>]
         ELSE LET raw_data == ReadBlock(D, block_id) IN
              IF Len(raw_data) = 0
              THEN [ok |-> TRUE, entries |-> <<>>]          \* EOFError
              ELSE IF PickleOk(raw_data, "entry")
              THEN [ok |-> TRUE, entries |-> UnpickleEntries(raw_data)]
              ELSE [ok |-> FALSE, entries |-> <<>>]

\* dir_ops._write_directory_entries: [ok, d]
\* _write_directory_entries that stores as many cells as fit before it fails
WriteDirectoryEntries_Truncate(D, dir_inode_id, entries) ==
    IF IsNone(GetInode(D, dir_inode_id)) \/ GetInode(D, dir_inode_id).type # "DIRECTORY"
    THEN [ok |-> FALSE, d |-> D]
    ELSE IF GetInode(D, dir_inode_id).data_block_indices = <<>>
    THEN [ok |-> FALSE, d |-> D]
    ELSE IF Len(PickleEntries(entries)) > D.sb.block_size
    THEN [ok |-> FALSE,
          d |-> [D EXCEPT !.blk[GetInode(D, dir_inode_id).data_block_indices[1] + 1] =
                    SubSeq(PickleEntries(entries), 1, D.sb.block_size)]]
    ELSE IF WriteBlockExc(D, GetInode(D, dir_inode_id).data_block_indices[1],
                          PickleEntries(entries)) # "ok"
    THEN [ok |-> FALSE, d |-> D]
    ELSE [ok |-> TRUE,
          d |-> [WriteBlock(D, GetInode(D, dir_inode_id).data_block_indices[1],
                            PickleEntries(entries))
                   EXCEPT !.it[dir_inode_id + 1].size = Len(entries)]]

WriteDirectoryEntries(D, dir_inode_id, entries) ==
    LET dir_inode == GetInode(D, dir_inode_id) IN
    IF IsNone(dir_inode) \/ dir_inode.type # "DIRECTORY"
    THEN [ok |-> FALSE, d |-> D]
    ELSE IF dir_inode.data_block_indices = <<>>
    THEN [ok |-> FALSE, d |-> D]
    ELSE LET block_id == dir_inode.data_block_indices[1]
             serialized_entries == PickleEntries(entries)
         IN IF Len(serialized_entries) > D.sb.block_size
            THEN [ok |-> FALSE, d |-> D]
            ELSE IF WriteBlockExc(D, block_id, serialized_entries) # "ok"
            THEN [ok |-> FALSE, d |-> D]
            ELSE [ok |-> TRUE,
                  d |-> [WriteBlock(D, block_id, serialized_entries)
                           EXCEPT !.it[dir_inode_id + 1].size = Len(entries)]]

\* index (1-based) of the first entry called name, 0 when there is none
FindEntry(entries, name) ==
    IF \E i \in 1..Len(entries) : entries[i].name = name
    THEN CHOOSE i \in 1..Len(entries) :
            /\ entries[i].name = name
            /\ \A j \in 1..(i - 1) : entries[j].name # name
    ELSE 0
RemoveAt(s, i) == SubSeq(s, 1, i - 1) \o SubSeq(s, i + 1, Len(s))

\* the name checks of make_directory, create_file and rename_item
InvalidName(name) == name = "" \/ name \in {".", ".."}

\* dir_ops.make_directory: [d, ok, ret]
MakeDirectory(D, current_user_uid, parent_inode_id, new_dir_name) ==
    LET parent_inode == GetInode(D, parent_inode_id)
        pe == ReadDirectoryEntries(D, parent_inode_id)
        a1 == AllocateInode(D)
        new_inode_id == a1.ret
        a2 == AllocateDataBlock(a1.d)
        new_data_block_id == a2.ret
        new_dir_inode ==
            [Inode(new_inode_id, "DIRECTORY", current_user_uid,
                   DEFAULT_DIRECTORY_PERMISSIONS)
               EXCEPT !.data_block_indices = <<new_data_block_id>>,
                      !.blocks_count = 1, !.link_count = 2]
        D3 == [a2.d EXCEPT !.it[new_inode_id + 1] = new_dir_inode]
        w1 == WriteDirectoryEntries(D3, new_inode_id,
                  <<DirectoryEntry(".", new_inode_id, FALSE),
                    DirectoryEntry("..", parent_inode_id, FALSE)>>)
        w2 == WriteDirectoryEntries(w1.d, parent_inode_id,
                  Append(pe.entries,
                         DirectoryEntry(new_dir_name, new_inode_id, FALSE)))
        fail(d) == [d |-> d, ok |-> FALSE, ret |-> None]
    IN
    IF InvalidName(new_dir_name) THEN fail(D)
    ELSE IF NameLen(new_dir_name) > MAX_NAME_LEN THEN fail(D)
    ELSE IF IsNone(parent_inode) THEN fail(D)
    ELSE IF parent_inode.type # "DIRECTORY" THEN fail(D)
    ELSE IF ~pe.ok THEN fail(D)
    ELSE IF FindEntry(pe.entries, new_dir_name) # 0 THEN fail(D)
    ELSE IF new_inode_id = None THEN fail(D)
    ELSE IF new_data_block_id = None THEN fail(FreeInode(a2.d, new_inode_id))
    ELSE IF ~w1.ok
         THEN fail(FreeInode(FreeDataBlock(w1.d, new_data_block_id), new_inode_id))
    ELSE IF ~w2.ok
         THEN fail(FreeInode(FreeDataBlock(w2.d, new_data_block_id), new_inode_id))
    ELSE [d |-> [w2.d EXCEPT !.it[parent_inode_id + 1].link_count = @ + 1],
          ok |-> TRUE, ret |-> new_inode_id]

\* remove_directory without the test of the type of the target
RemoveDirectory_AnyType(D, current_user_uid, parent_inode_id, dir_name_to_delete) ==
    LET parent_inode == GetInode(D, parent_inode_id)
        pe == ReadDirectoryEntries(D, parent_inode_id)
        entry_index_in_parent == FindEntry(pe.entries, dir_name_to_delete)
        target_dir_inode_id == pe.entries[entry_index_in_parent].inode_id
        target_dir_inode == GetInode(D, target_dir_inode_id)
        te == ReadDirectoryEntries(D, target_dir_inode_id)
        popped == RemoveAt(pe.entries, entry_index_in_parent)
        w == WriteDirectoryEntries(D, parent_inode_id, popped)
        D1 == [w.d EXCEPT !.it[parent_inode_id + 1].link_count = @ - 1]
        D2 == FreeDataBlocks(D1, target_dir_inode.data_block_indices)
        fail(d) == [d |-> d, ok |-> FALSE]
    IN
    IF dir_name_to_delete = "" \/ dir_name_to_delete \in {".", ".."} THEN fail(D)
    ELSE IF IsNone(parent_inode) THEN fail(D)
    ELSE IF parent_inode.type # "DIRECTORY" THEN fail(D)
    ELSE IF ~pe.ok THEN fail(D)
    ELSE IF entry_index_in_parent = 0 THEN fail(D)
    ELSE IF IsNone(target_dir_inode) THEN fail(w.d)
    ELSE IF te.ok /\ Len(te.entries) > 2 THEN fail(D)
    ELSE IF ~w.ok THEN fail(D)
    ELSE [d |-> FreeInode(D2, target_dir_inode_id), ok |-> TRUE]

\* dir_ops.remove_directory: [d, ok]
RemoveDirectory(D, current_user_uid, parent_inode_id, dir_name_to_delete) ==
    LET parent_inode == GetInode(D, parent_inode_id)
        pe == ReadDirectoryEntries(D, parent_inode_id)
        entry_index_in_parent == FindEntry(pe.entries, dir_name_to_delete)
        target_dir_inode_id == pe.entries[entry_index_in_parent].inode_id
        target_dir_inode == GetInode(D, target_dir_inode_id)
        te == ReadDirectoryEntries(D, target_dir_inode_id)
        popped == RemoveAt(pe.entries, entry_index_in_parent)
        w == WriteDirectoryEntries(D, parent_inode_id, popped)
        D1 == [w.d EXCEPT !.it[parent_inode_id + 1].link_count = @ - 1]
        D2 == FreeDataBlocks(D1, target_dir_inode.data_block_indices)
        fail(d) == [d |-> d, ok |-> FALSE]
    IN
    IF dir_name_to_delete = "" \/ dir_name_to_delete \in {".", ".."} THEN fail(D)
    ELSE IF IsNone(parent_inode) THEN fail(D)
    ELSE IF parent_inode.type # "DIRECTORY" THEN fail(D)
    ELSE IF ~pe.ok THEN fail(D)
    ELSE IF entry_index_in_parent = 0 THEN fail(D)
    ELSE IF IsNone(target_dir_inode) THEN fail(w.d)   \* dangling entry removed
    ELSE IF target_dir_inode.type # "DIRECTORY" THEN fail(D)
    ELSE IF ~te.ok THEN fail(D)
    ELSE IF Len(te.entries) > 2 THEN fail(D)
    ELSE IF ~w.ok THEN fail(D)
    ELSE [d |-> FreeInode(D2, target_dir_inode_id), ok |-> TRUE]

\* dir_ops.rename_item: [d, ok]
RenameItem(D, user_uid, parent_inode_id, old_name, new_name) ==
    LET parent_inode == GetInode(D, parent_inode_id)
        re == ReadDirectoryEntries(D, parent_inode_id)
        old_entry_index == FindEntry(re.entries, old_name)
        \* the loop returns at the first entry called new_name
        renamed == [re.entries EXCEPT ![old_entry_index].name = new_name]
        w == WriteDirectoryEntries(D, parent_inode_id, renamed)
        fail == [d |-> D, ok |-> FALSE]
    IN
    IF InvalidName(new_name) THEN fail
    ELSE IF NameLen(new_name) > MAX_NAME_LEN THEN fail
    ELSE IF old_name = new_name THEN [d |-> D, ok |-> TRUE]
    ELSE IF IsNone(parent_inode) THEN fail
    ELSE IF parent_inode.type # "DIRECTORY" THEN fail
    ELSE IF ~CheckPermission(parent_inode, user_uid, PermissionsWRITE) THEN fail
    ELSE IF ~re.ok THEN fail
    ELSE IF FindEntry(re.entries, new_name) # 0 THEN fail
    ELSE IF old_entry_index = 0 THEN fail
    ELSE IF ~w.ok THEN [d |-> w.d, ok |-> FALSE]   \* nothing is restored
    ELSE [d |-> w.d, ok |-> TRUE]


\* dir_ops._resolve_path_to_inode_id.  A path string is modelled by its
\* split form: abs (it starts with "/") and comps (the non-empty
\* components of path.split("/")).  Returns an inode id or None.
RECURSIVE ResolveFrom(_, _, _, _)
\* a walk that stops at a component that is no directory and returns it
ResolveFrom_StopAtFile(D, current_processing_inode_id, components, k) ==
    IF k > Len(components) THEN current_processing_inode_id
    ELSE
    LET component == components[k]
        current_inode_obj == GetInode(D, current_processing_inode_id)
        re == ReadDirectoryEntries(D, current_processing_inode_id)
        i == FindEntry(re.entries, component)
    IN
    IF IsNone(current_inode_obj) THEN None
    ELSE IF current_inode_obj.type # "DIRECTORY" THEN current_processing_inode_id
    ELSE IF ~re.ok THEN None
    ELSE IF component = "." THEN ResolveFrom(D, current_processing_inode_id, components, k + 1)
    ELSE IF i = 0 THEN None
    ELSE IF IsNone(GetInode(D, re.entries[i].inode_id)) THEN None
    ELSE ResolveFrom(D, re.entries[i].inode_id, components, k + 1)

ResolveFrom(D, current_processing_inode_id, components, k) ==
    IF k > Len(components) THEN current_processing_inode_id
    ELSE
    LET component == components[k]
        current_inode_obj == GetInode(D, current_processing_inode_id)
        re == ReadDirectoryEntries(D, current_processing_inode_id)
        i == FindEntry(re.entries, component)
        target_inode_obj == GetInode(D, re.entries[i].inode_id)
    IN
    IF IsNone(current_inode_obj) \/ current_inode_obj.type # "DIRECTORY" THEN None
    ELSE IF ~re.ok THEN None
    ELSE IF component = "." THEN ResolveFrom(D, current_processing_inode_id, components, k + 1)
    ELSE IF i = 0 THEN None
    ELSE IF component = ".." THEN ResolveFrom(D, re.entries[i].inode_id, components, k + 1)
    ELSE IF IsNone(target_inode_obj) THEN None
    ELSE IF component # components[Len(components)]
            /\ target_inode_obj.type # "DIRECTORY" THEN None
    ELSE ResolveFrom(D, re.entries[i].inode_id, components, k + 1)

\* the walk of _resolve_path_to_inode_id with what it costs: [ret, steps,
\* links], steps being the turns of the loop over the components that were
\* started and links the symbolic links the walk moved onto
RECURSIVE ResolveWalk(_, _, _, _, _)

\* a walk that stays on a symbolic link and goes on with the next component
ResolveWalk_StayOnLink(D, current_processing_inode_id, components, k, links) ==
    IF k > Len(components)
    THEN [ret |-> current_processing_inode_id, steps |-> k - 1, links |-> links]
    ELSE IF GetInode(D, current_processing_inode_id).type = "SYMBOLIC_LINK"
    THEN ResolveWalk(D, current_processing_inode_id, components, k + 1, links + 1)
    ELSE IF GetInode(D, current_processing_inode_id).type # "DIRECTORY"
            \/ ~ReadDirectoryEntries(D, current_processing_inode_id).ok
            \/ FindEntry(ReadDirectoryEntries(D, current_processing_inode_id).entries,
                         components[k]) = 0
    THEN [ret |-> None, steps |-> k, links |-> links]
    ELSE ResolveWalk(D,
             ReadDirectoryEntries(D, current_processing_inode_id).entries[
                 FindEntry(ReadDirectoryEntries(D, current_processing_inode_id).entries,
                           components[k])].inode_id,
             components, k + 1, links)

ResolveWalk(D, current_processing_inode_id, components, k, links) ==
    IF k > Len(components)
    THEN [ret |-> current_processing_inode_id, steps |-> k - 1, links |-> links]
    ELSE
    LET component == components[k]
        current_inode_obj == GetInode(D, current_processing_inode_id)
        re == ReadDirectoryEntries(D, current_processing_inode_id)
        i == FindEntry(re.entries, component)
        target_inode_obj == GetInode(D, re.entries[i].inode_id)
        stop == [ret |-> None, steps |-> k, links |-> links]
    IN
    IF IsNone(current_inode_obj) \/ current_inode_obj.type # "DIRECTORY" THEN stop
    ELSE IF ~re.ok THEN stop
    ELSE IF component = "."
    THEN ResolveWalk(D, current_processing_inode_id, components, k + 1, links)
    ELSE IF i = 0 THEN stop
    ELSE IF component = ".."
    THEN ResolveWalk(D, re.entries[i].inode_id, components, k + 1, links)
    ELSE IF IsNone(target_inode_obj) THEN stop
    ELSE IF component # components[Len(components)]
            /\ target_inode_obj.type # "DIRECTORY" THEN stop
    ELSE ResolveWalk(D, re.entries[i].inode_id, components, k + 1,
                     links + IF target_inode_obj.type = "SYMBOLIC_LINK"
                             THEN 1 ELSE 0)

ResolvePathToInodeId(D, current_dir_inode_id, root_inode_id, path) ==
    IF ~path.abs /\ path.comps = <<>> THEN current_dir_inode_id
    ELSE IF path.abs /\ path.comps = <<>> THEN root_inode_id
    ELSE ResolveFrom(D, IF path.abs THEN root_inode_id ELSE current_dir_inode_id,
                     path.comps, 1)

\* ------------------------------------------------------------- file layer
\* str.encode("utf-8"): characters 1 and 2 take one byte, character 3 two
Utf8(ch) == IF ch = 3 THEN <<ByteCell(3), ByteCell(4)>> ELSE <<ByteCell(ch)>>
RECURSIVE Encode(_)
Encode(str) == IF str = <<>> THEN <<>> ELSE Utf8(Head(str)) \o Encode(Tail(str))

\* the character "/" of path strings; characters 1 and 2 are the letters
\* "a" and "b"
Slash == 5

\* path.split("/") without the empty components, for a string of characters
RECURSIVE SplitPath(_)
SplitPath(str) ==
    IF str = <<>> THEN <<>>
    ELSE IF Head(str) = Slash THEN SplitPath(Tail(str))
    ELSE <<IF Head(str) = 1 THEN "a" ELSE IF Head(str) = 2 THEN "b" ELSE "?">>
         \o SplitPath(Tail(str))

\* a path string as _resolve_path_to_inode_id takes it apart (names have one
\* character in the strings of this model)
ParsePath(str) ==
    [abs |-> str # <<>> /\ Head(str) = Slash, comps |-> SplitPath(str)]

\* file_ops.create_file: [d, ok, ret]
CreateFile(D, current_user_uid, parent_inode_id, new_file_name) ==
    LET parent_inode == GetInode(D, parent_inode_id)
        pe == ReadDirectoryEntries(D, parent_inode_id)
        a1 == AllocateInode(D)
        new_inode_id == a1.ret
        new_file_inode == Inode(new_inode_id, "FILE", current_user_uid,
                                DEFAULT_FILE_PERMISSIONS)
        D2 == [a1.d EXCEPT !.it[new_inode_id + 1] = new_file_inode]
        w == WriteDirectoryEntries(D2, parent_inode_id,
                 Append(pe.entries,
                        DirectoryEntry(new_file_name, new_inode_id, FALSE)))
        fail(d) == [d |-> d, ok |-> FALSE, ret |-> None]
    IN
    IF InvalidName(new_file_name) THEN fail(D)
    ELSE IF NameLen(new_file_name) > MAX_NAME_LEN THEN fail(D)
    ELSE IF IsNone(parent_inode) THEN fail(D)
    ELSE IF parent_inode.type # "DIRECTORY" THEN fail(D)
    ELSE IF ~pe.ok THEN fail(D)
    ELSE IF FindEntry(pe.entries, new_file_name) # 0 THEN fail(D)
    ELSE IF new_inode_id = None THEN fail(D)
    ELSE IF ~w.ok
         THEN fail(FreeInode([w.d EXCEPT !.it[new_inode_id + 1] = NullInode],
                             new_inode_id))
    ELSE [d |-> w.d, ok |-> TRUE, ret |-> new_inode_id]

\* file_ops.create_symbolic_link: [d, status, ret]; status "raise" is an
\* exception that leaves the function (ValueError of write_block or of
\* DirectoryEntry.__init__)
CreateSymbolicLink(D, current_user_uid, parent_inode_id, link_name, target_path) ==
    LET pe == ReadDirectoryEntries(D, parent_inode_id)
        a1 == AllocateInode(D)
        new_inode_id == a1.ret
        target_path_bytes == Encode(target_path)
        size == Len(target_path_bytes)
        a2 == AllocateDataBlock(a1.d)
        block_id == a2.ret
        link_inode ==
            IF size > 0
            THEN [Inode(new_inode_id, "SYMBOLIC_LINK", current_user_uid,
                        SYMLINK_PERMISSIONS)
                    EXCEPT !.size = size, !.data_block_indices = <<block_id>>,
                           !.blocks_count = 1]
            ELSE [Inode(new_inode_id, "SYMBOLIC_LINK", current_user_uid,
                        SYMLINK_PERMISSIONS) EXCEPT !.size = size]
        D2 == IF size > 0 THEN WriteBlock(a2.d, block_id, target_path_bytes)
              ELSE a1.d
        D3 == [D2 EXCEPT !.it[new_inode_id + 1] = link_inode]
        w == WriteDirectoryEntries(D3, parent_inode_id,
                 Append(pe.entries,
                        DirectoryEntry(link_name, new_inode_id, FALSE)))
        rollback == FreeInode(IF link_inode.data_block_indices # <<>>
                              THEN FreeDataBlock(w.d, link_inode.data_block_indices[1])
                              ELSE w.d,
                              new_inode_id)
        res(d, st, r) == [d |-> d, status |-> st, ret |-> r]
    IN
    IF InvalidName(link_name) THEN res(D, "fail", None)
    ELSE IF ~pe.ok THEN res(D, "fail", None)
    ELSE IF FindEntry(pe.entries, link_name) # 0 THEN res(D, "fail", None)
    ELSE IF new_inode_id = None THEN res(D, "fail", None)
    ELSE IF size > 0 /\ block_id = None
         THEN res(FreeInode(a2.d, new_inode_id), "fail", None)
    ELSE IF size > 0 /\ WriteBlockExc(a2.d, block_id, target_path_bytes) # "ok"
         THEN res(a2.d, "raise", None)
    ELSE IF DirectoryEntryRaises(link_name) THEN res(D3, "raise", None)
    ELSE IF ~w.ok THEN res(rollback, "fail", None)
    ELSE res(w.d, "ok", new_inode_id)

\* The name list_directory is not bound in module file_ops (it is defined
\* in dir_ops and not imported): calling it raises NameError, which the
\* enclosing "except Exception" of create_hard_link and delete_file turns
\* into a failure result.
ListDirectoryBound == FALSE

\* file_ops.create_hard_link: [d, ok, ret]
CreateHardLink(D, uid, parent_inode_id, link_name, target_inode_id) ==
    LET target_inode == GetInode(D, target_inode_id)
        parent_inode == GetInode(D, parent_inode_id)
        fail == [d |-> D, ok |-> FALSE, ret |-> None]
    IN
    IF IsNone(target_inode) THEN fail
    ELSE IF target_inode.type # "FILE" THEN fail
    ELSE IF IsNone(parent_inode) \/ parent_inode.type # "DIRECTORY" THEN fail
    ELSE IF ~FileOpsCheckPermissions(parent_inode, uid, "write") THEN fail
    ELSE IF ~ListDirectoryBound THEN fail            \* NameError, line 975
    ELSE fail

\* file_ops.delete_file (the second definition, which is the one bound to
\* the name): [d, ok]
DeleteFile(D, uid, parent_inode_id, file_name) ==
    LET parent_inode == GetInode(D, parent_inode_id)
        fail == [d |-> D, ok |-> FALSE]
    IN
    IF IsNone(parent_inode) \/ parent_inode.type # "DIRECTORY" THEN fail
    ELSE IF ~FileOpsCheckPermissions(parent_inode, uid, "write") THEN fail
    ELSE IF ~ListDirectoryBound THEN fail            \* NameError, line 1054
    ELSE fail


\* DiskManager.format_disk: [d, ok]
FormatDiskOp(num_inodes, num_blocks, block_size) ==
    LET D0 == InitializeStorage(num_inodes, num_blocks, block_size)
        a1 == AllocateInode(D0)
        root_inode_id == a1.ret
        D1 == [a1.d EXCEPT !.sb.root_inode_id = root_inode_id]
        a2 == AllocateDataBlock(D1)
        root_data_block_id == a2.ret
        dir_entries == <<DirectoryEntry(".", root_inode_id, FALSE),
                         DirectoryEntry("..", root_inode_id, FALSE)>>
        root_inode ==
            [Inode(root_inode_id, "DIRECTORY", ROOT_UID, ROOT_DIR_PERMISSIONS)
               EXCEPT !.link_count = 2,
                      !.data_block_indices = <<root_data_block_id>>,
                      !.blocks_count = 1, !.size = Len(dir_entries)]
        serialized_entries == PickleEntries(dir_entries)
        D3 == WriteBlock(a2.d, root_data_block_id, serialized_entries)
    IN
    IF root_inode_id = None THEN [d |-> D0, ok |-> FALSE]
    ELSE IF root_data_block_id = None
         THEN [d |-> FreeInode(a2.d, root_inode_id), ok |-> FALSE]
    ELSE IF Len(serialized_entries) > D0.sb.block_size
         THEN [d |-> FreeInode(FreeDataBlock(a2.d, root_data_block_id),
                               root_inode_id),
               ok |-> FALSE]
    ELSE [d |-> [D3 EXCEPT !.it[root_inode_id + 1] = root_inode, !.fmt = TRUE],
          ok |-> TRUE]

\* ----------------------------------------------------------- persistence
\* PersistenceManager.save_disk_image: the image file it leaves, which holds
\* the pickled DiskManager (pickle keeps every attribute of the object)
SaveDiskImage(D) == [exists |-> TRUE, obj |-> D]

\* PersistenceManager.load_disk_image: [ok, d]; a disk manager that has a
\* superblock comes back marked as formatted
LoadDiskImage(image) ==
    IF ~image.exists THEN [ok |-> FALSE, d |-> NewDisk]
    ELSE IF image.obj.sb.present /\ ~image.obj.fmt
    THEN [ok |-> TRUE, d |-> [image.obj EXCEPT !.fmt = TRUE]]
    ELSE [ok |-> TRUE, d |-> image.obj]

\* --------------------------------------------------------------- session
\* OpenFileEntry.__init__; ref = 0: inode_ref is the object in
\* inode_table[inode_id], ref = k > 0: it is the object detached[k]
OpenFileEntry(inode_id, mode, inode_ref_size) ==
    [inode_id |-> inode_id, mode |-> mode, ref |-> 0,
     offset |-> IF mode = "APPEND" THEN inode_ref_size ELSE 0]

\* oft_entry.inode_ref
InodeRef(D, det, e) == IF e.ref = 0 THEN D.it[e.inode_id + 1] ELSE det[e.ref]

NoDetached == [k \in 1..MaxFds |-> NullInode]

\* the detached objects still referenced by some open-file entry
Collect(det, oft) ==
    [k \in DOMAIN det |->
        IF \E fd \in DOMAIN oft : oft[fd].ref = k THEN det[k] ELSE NullInode]

\* a descriptor numbered by the count of the open descriptors
MinFreeFd_Count(oft) == Cardinality(DOMAIN oft)

\* UserAuthenticator.allocate_fd: the smallest integer that is no descriptor
MinFreeFd(oft) == CHOOSE fd \in 0..Cardinality(DOMAIN oft) :
                     /\ fd \notin DOMAIN oft
                     /\ \A g \in 0..(fd - 1) : g \in DOMAIN oft

\* file_ops._parse_open_mode
ParseOpenMode(mode_str) ==
    IF mode_str = "r" THEN "READ"
    ELSE IF mode_str = "w" THEN "WRITE"
    ELSE IF mode_str = "a" THEN "APPEND"
    ELSE IF mode_str = "r+" THEN "READ_WRITE"
    ELSE "None"

\* the parent path open_file resolves to create a missing file
ParentPathForCreation(path) ==
    IF Len(path.comps) = 1
    THEN [abs |-> path.abs, comps |-> IF path.abs THEN <<>> ELSE <<".">>]
    ELSE [abs |-> path.abs, comps |-> SubSeq(path.comps, 1, Len(path.comps) - 1)]

OpenFail(D) == [d |-> D, ok |-> FALSE, inode_id |-> None]

\* the end of file_ops.open_file, file_inode being the inode to open: mode
\* 'w' frees the direct blocks of a file that has content
OpenInode(D, open_mode, file_inode_id, file_inode) ==
    IF IsNone(file_inode) THEN OpenFail(D)
    ELSE IF open_mode = "WRITE"
            /\ (file_inode.size > 0 \/ file_inode.data_block_indices # <<>>)
         THEN [d |-> [FreeDataBlocks(D, file_inode.data_block_indices)
                        EXCEPT !.it[file_inode_id + 1].data_block_indices = <<>>,
                               !.it[file_inode_id + 1].blocks_count = 0,
                               !.it[file_inode_id + 1].size = 0],
               ok |-> TRUE, inode_id |-> file_inode_id]
    ELSE [d |-> D, ok |-> TRUE, inode_id |-> file_inode_id]

\* file_ops.open_file once create_file returned c
OpenCreated(open_mode, c) ==
    IF ~c.ok THEN OpenFail(c.d)
    ELSE OpenInode(c.d, open_mode, c.ret, GetInode(c.d, c.ret))

\* an open that creates a missing file in mode 'w' only
OpenMissing_WriteOnly(D, uid, path, open_mode, parent_id) ==
    IF open_mode \in {"READ", "READ_WRITE", "APPEND"} THEN OpenFail(D)
    ELSE IF path.comps = <<>> THEN OpenFail(D)
    ELSE IF parent_id = None THEN OpenFail(D)
    ELSE OpenCreated(open_mode,
                     CreateFile(D, uid, parent_id, path.comps[Len(path.comps)]))

\* file_ops.open_file when the path does not resolve: the file is created
\* in the directory parent_id for the modes that create
OpenMissing(D, uid, path, open_mode, parent_id) ==
    IF open_mode \in {"READ", "READ_WRITE"} THEN OpenFail(D)
    ELSE IF path.comps = <<>> THEN OpenFail(D)
    ELSE IF parent_id = None THEN OpenFail(D)
    ELSE OpenCreated(open_mode,
                     CreateFile(D, uid, parent_id, path.comps[Len(path.comps)]))

\* file_ops.open_file once the path is resolved
OpenResolved(D, uid, cwd_inode_id, path, open_mode, resolved_inode_id, inode_check) ==
    IF resolved_inode_id # None
    THEN IF IsNone(inode_check) THEN OpenFail(D)
         ELSE IF inode_check.type = "DIRECTORY" THEN OpenFail(D)
         ELSE OpenInode(D, open_mode, resolved_inode_id,
                        GetInode(D, resolved_inode_id))
    ELSE OpenMissing(D, uid, path, open_mode,
                     ResolvePathToInodeId(D, cwd_inode_id, D.sb.root_inode_id,
                                          ParentPathForCreation(path)))

\* file_ops.open_file up to the descriptor allocation: [d, ok, inode_id]
OpenFileOp(D, uid, cwd_inode_id, path, mode_str) ==
    IF uid = None THEN OpenFail(D)
    ELSE IF cwd_inode_id = None \/ ~D.sb.present \/ D.sb.root_inode_id = None
    THEN OpenFail(D)
    ELSE IF ParseOpenMode(mode_str) = "None" THEN OpenFail(D)
    ELSE OpenResolved(D, uid, cwd_inode_id, path, ParseOpenMode(mode_str),
             ResolvePathToInodeId(D, cwd_inode_id, D.sb.root_inode_id, path),
             GetInode(D, ResolvePathToInodeId(D, cwd_inode_id,
                                              D.sb.root_inode_id, path)))

\* the while loop of file_ops.write_file on the inode object X, from byte
\* ptr of content_bytes: [d, x, off, written, status]
RECURSIVE WriteLoop(_, _, _, _, _, _)
RECURSIVE WriteChunk(_, _, _, _, _, _, _, _)

WriteStop(D, X, current_offset, written, status) ==
    [d |-> D, x |-> X, off |-> current_offset, written |-> written,
     status |-> status]

\* the end of one turn of the loop: the chunk is spliced into
\* current_block_data and the block written back
WriteChunk(D, X, physical_block_id, current_block_data, content_bytes, ptr, current_offset, written) ==
    LET block_size == D.sb.block_size
        offset_in_block == current_offset % block_size
        n == Min(Len(content_bytes) - ptr, block_size - offset_in_block)
        data_chunk_to_write == SubSeq(content_bytes, ptr + 1, ptr + n)
        spliced == SubSeq(current_block_data, 1, offset_in_block)
                   \o data_chunk_to_write
                   \o SubSeq(current_block_data, offset_in_block + n + 1,
                             Len(current_block_data))
    IN
    IF WriteBlockExc(D, physical_block_id, spliced) # "ok"
    THEN WriteStop(D, [X EXCEPT !.size = current_offset], current_offset,
                   written, "write_error")
    ELSE WriteLoop(WriteBlock(D, physical_block_id, spliced), X,
                   content_bytes, ptr + n, current_offset + n, written + n)

\* a turn that gives up on a full disk without recording what was written
WriteAllocated_NoCommit(D, X, a, content_bytes, ptr, current_offset, written) ==
    IF a.ret = None
    THEN WriteStop(D, X, current_offset, written, "disk_full")
    ELSE WriteChunk(a.d,
                    [X EXCEPT !.data_block_indices = Append(@, a.ret),
                              !.blocks_count = @ + 1],
                    a.ret, Repeat(ZeroCell, D.sb.block_size),
                    content_bytes, ptr, current_offset, written)

\* the turn of the loop that needs a new block; a is the result of
\* allocate_data_block
WriteAllocated(D, X, a, content_bytes, ptr, current_offset, written) ==
    IF a.ret = None
    THEN WriteStop(D, [X EXCEPT !.size = current_offset], current_offset,
                   written, "disk_full")
    ELSE WriteChunk(a.d,
                    [X EXCEPT !.data_block_indices = Append(@, a.ret),
                              !.blocks_count = @ + 1],
                    a.ret, Repeat(ZeroCell, D.sb.block_size),
                    content_bytes, ptr, current_offset, written)

WriteLoop(D, X, content_bytes, ptr, current_offset, written) ==
    LET logical_block_idx == current_offset \div D.sb.block_size IN
    IF ptr >= Len(content_bytes)
    THEN WriteStop(D, X, current_offset, written, "done")
    ELSE IF logical_block_idx < Len(X.data_block_indices)
    THEN IF ReadBlockExc(D, X.data_block_indices[logical_block_idx + 1])
         THEN WriteStop(D, X, current_offset, written, "read_error")
         ELSE WriteChunk(D, X, X.data_block_indices[logical_block_idx + 1],
                         ReadBlock(D, X.data_block_indices[logical_block_idx + 1]),
                         content_bytes, ptr, current_offset, written)
    ELSE IF logical_block_idx # Len(X.data_block_indices)
    THEN WriteStop(D, X, current_offset, written, "not_contiguous")
    ELSE WriteAllocated(D, X, AllocateDataBlock(D), content_bytes, ptr,
                        current_offset, written)

\* the end of file_ops.write_file, after the loop returned w: the tail
\* blocks beyond the new size are freed
WriteFinish(block_size, offset, w) ==
    LET new_file_size == w.off
        old_num_blocks_allocated == w.x.blocks_count
        required_num_blocks ==
            IF new_file_size > 0
            THEN (new_file_size + block_size - 1) \div block_size ELSE 0
        shrink == required_num_blocks < old_num_blocks_allocated
    IN
    IF w.status = "done"
    THEN [d |-> IF shrink
                THEN FreeDataBlocks(w.d, Drop(w.x.data_block_indices,
                                              required_num_blocks))
                ELSE w.d,
          x |-> [w.x EXCEPT
                   !.data_block_indices =
                       IF shrink THEN Take(@, required_num_blocks) ELSE @,
                   !.blocks_count = required_num_blocks,
                   !.size = new_file_size],
          offset |-> new_file_size, ok |-> TRUE, ret |-> w.written]
    ELSE IF w.status \in {"disk_full", "write_error"}
    THEN [d |-> w.d, x |-> w.x, offset |-> w.off, ok |-> FALSE, ret |-> w.written]
    ELSE [d |-> w.d, x |-> w.x, offset |-> offset, ok |-> FALSE, ret |-> w.written]

\* file_ops.write_file on an open-file entry whose mode allows writing:
\* [d, x, offset, ok, ret]; x is the inode object afterwards, offset the
\* entry's offset afterwards, ret is bytes_written_this_call
WriteFileOp(D, X, offset, content_str) ==
    WriteFinish(D.sb.block_size, offset,
                WriteLoop(D, X, Encode(content_str), 0, offset, 0))

\* the read loop of file_ops.read_file: [ok, data, off]
RECURSIVE ReadLoop(_, _, _, _, _, _)
ReadLoop(D, X, temp_offset, bytes_read_so_far, bytes_can_actually_read, acc) ==
    LET block_size == D.sb.block_size
        logical_block_idx == temp_offset \div block_size
        offset_in_block == temp_offset % block_size
        physical_block_id == X.data_block_indices[logical_block_idx + 1]
        k == Min(block_size - offset_in_block,
                 bytes_can_actually_read - bytes_read_so_far)
        data_chunk == Slice(ReadBlock(D, physical_block_id), offset_in_block,
                            offset_in_block + k)
    IN
    IF bytes_read_so_far >= bytes_can_actually_read
    THEN [ok |-> TRUE, data |-> acc, off |-> temp_offset]
    ELSE IF logical_block_idx >= Len(X.data_block_indices)
    THEN [ok |-> TRUE, data |-> acc, off |-> temp_offset]       \* break
    ELSE IF ReadBlockExc(D, physical_block_id)
    THEN [ok |-> FALSE, data |-> <<>>, off |-> temp_offset]
    ELSE ReadLoop(D, X, temp_offset + k, bytes_read_so_far + k,
                  bytes_can_actually_read, acc \o data_chunk)

\* file_ops.read_file on an open-file entry whose mode allows reading:
\* [ok, data, offset]; offset is the entry's offset afterwards
ReadFileOp(D, X, offset, num_bytes_to_read) ==
    LET r == ReadLoop(D, X, offset, 0, Min(num_bytes_to_read, X.size - offset), <<>>)
    IN
    IF num_bytes_to_read < 0 THEN [ok |-> FALSE, data |-> <<>>, offset |-> offset]
    ELSE IF num_bytes_to_read = 0 THEN [ok |-> TRUE, data |-> <<>>, offset |-> offset]
    ELSE IF offset >= X.size THEN [ok |-> TRUE, data |-> <<>>, offset |-> offset]
    ELSE IF ~r.ok THEN [ok |-> FALSE, data |-> <<>>, offset |-> offset]
    ELSE [ok |-> TRUE, data |-> r.data, offset |-> r.off]


\* ------------------------------------------------------------- block maps
\* pickle.loads of a block holding a pickled list of any elements
PickleListOk(data) ==
    /\ Len(data) >= 1
    /\ data[1].t = "list"
    /\ Len(data) >= data[1].v + 1
    /\ \A i \in 2..(data[1].v + 1) : data[i].t \in {"int", "entry", "cont"}
ListOfCells(cells) ==
    [i \in 1..Len(cells) |->
        IF cells[i].t = "int" THEN cells[i].v
        ELSE DirectoryEntry(cells[i].name, cells[i].v, cells[i].hl)]
UnpickleList(data) == ListOfCells(Elements(data))

\* DiskManager.read_indirect_block: every exception gives the empty list
ReadIndirectBlock(D, block_id) ==
    IF ReadBlockExc(D, block_id) THEN <<>>
    ELSE IF PickleListOk(ReadBlock(D, block_id))
         THEN UnpickleList(ReadBlock(D, block_id))
         ELSE <<>>

\* DiskManager.write_indirect_block; a failed write_block changes nothing
WriteIndirectBlock(D, block_id, block_indices) ==
    WriteBlock(D, block_id, PickleIds(block_indices))

\* the concatenation of read_indirect_block over a list of block ids
RECURSIVE ReadIndirectBlocks(_, _)
ReadIndirectBlocks(D, ids) ==
    IF ids = <<>> THEN <<>>
    ELSE ReadIndirectBlock(D, Head(ids)) \o ReadIndirectBlocks(D, Tail(ids))

\* DiskManager.get_file_block_indices
GetFileBlockIndices(D, inode) ==
    inode.data_block_indices
    \o ReadIndirectBlocks(D, inode.indirect_block_indices)
    \o ReadIndirectBlocks(D, ReadIndirectBlocks(D, inode.double_indirect_block_indices))

AllocResult(D, X, ok) == [d |-> D, x |-> X, ok |-> ok]

\* DiskManager.allocate_file_blocks, the loop over the direct blocks
RECURSIVE AllocateDirect(_, _, _)
AllocateDirectGot(a, X, k) ==
    IF a.ret = None THEN AllocResult(a.d, X, FALSE)
    ELSE AllocateDirect(a.d,
                        [X EXCEPT !.data_block_indices = Append(@, a.ret),
                                  !.blocks_count = @ + 1],
                        k - 1)
AllocateDirect(D, X, k) ==
    IF k <= 0 THEN AllocResult(D, X, TRUE)
    ELSE AllocateDirectGot(AllocateDataBlock(D), X, k)

\* DiskManager.allocate_file_blocks, the loop over the indirect blocks
RECURSIVE AllocateIndirect(_, _, _)
AllocateIndirectPut(D, a, X, needed_blocks) ==
    LET last_indirect_block_id ==
            X.indirect_block_indices[Len(X.indirect_block_indices)]
    IN
    IF a.ret = None THEN AllocResult(a.d, X, FALSE)
    ELSE AllocateIndirect(
             WriteIndirectBlock(a.d, last_indirect_block_id,
                 Append(ReadIndirectBlock(D, last_indirect_block_id), a.ret)),
             [X EXCEPT !.blocks_count = @ + 1],
             needed_blocks - 1)
AllocateIndirectNew(a, X, needed_blocks) ==
    IF a.ret = None THEN AllocResult(a.d, X, FALSE)
    ELSE AllocateIndirectPut(a.d, AllocateDataBlock(a.d),
             [X EXCEPT !.indirect_block_indices = Append(@, a.ret),
                       !.blocks_count = @ + 1],
             needed_blocks)
AllocateIndirect(D, X, needed_blocks) ==
    LET blocks_per_indirect == D.sb.block_size \div INDEX_BYTES IN
    IF needed_blocks <= 0 THEN AllocResult(D, X, TRUE)
    ELSE IF Len(X.indirect_block_indices) = 0
            \/ Len(ReadIndirectBlock(D,
                       X.indirect_block_indices[Len(X.indirect_block_indices)]))
               >= blocks_per_indirect
    THEN AllocateIndirectNew(AllocateDataBlock(D), X, needed_blocks)
    ELSE AllocateIndirectPut(D, AllocateDataBlock(D), X, needed_blocks)

\* DiskManager.allocate_file_blocks once the direct blocks are allocated
AllocateAfterDirect(r, needed_blocks) ==
    IF ~r.ok THEN r
    ELSE IF needed_blocks <= 0 THEN r
    ELSE AllocateIndirect(r.d, r.x, needed_blocks)

\* DiskManager.allocate_file_blocks on the inode object X: [d, x, ok]
AllocateFileBlocks(D, X, required_blocks) ==
    LET current_blocks == Len(GetFileBlockIndices(D, X))
        needed_blocks == required_blocks - current_blocks
        direct_blocks_needed ==
            Min(needed_blocks, DIRECT_BLOCK_CAP - Len(X.data_block_indices))
    IN
    IF needed_blocks <= 0 THEN AllocResult(D, X, TRUE)
    ELSE AllocateAfterDirect(AllocateDirect(D, X, direct_blocks_needed),
                             needed_blocks - direct_blocks_needed)

\* file_ops.write_file_content, the allocation loop: [d, ids, ok]
RECURSIVE AllocateContentBlocks(_, _, _)
AllocateContentGot(a, ids, k) ==
    IF a.ret = None THEN [d |-> a.d, ids |-> ids, ok |-> FALSE]
    ELSE AllocateContentBlocks(a.d, Append(ids, a.ret), k - 1)
AllocateContentBlocks(D, ids, k) ==
    IF k <= 0 THEN [d |-> D, ids |-> ids, ok |-> TRUE]
    ELSE AllocateContentGot(AllocateDataBlock(D), ids, k)

\* file_ops.write_file_content, the loop writing the blocks
RECURSIVE WriteContentBlocks(_, _, _, _)
WriteContentBlocks(D, ids, content, i) ==
    IF i >= Len(ids) THEN D
    ELSE WriteContentBlocks(
             WriteBlock(D, ids[i + 1],
                        Slice(content, i * D.sb.block_size,
                              (i + 1) * D.sb.block_size)),
             ids, content, i + 1)

\* file_ops.write_file_content once the blocks are allocated (r)
WriteContentFinish(inode_id, content, r) ==
    IF ~r.ok
    THEN [d |-> [r.d EXCEPT !.it[inode_id + 1].data_block_indices = r.ids],
          ok |-> FALSE]
    ELSE [d |-> [WriteContentBlocks(r.d, r.ids, content, 0)
                   EXCEPT !.it[inode_id + 1].data_block_indices = r.ids,
                          !.it[inode_id + 1].size = Len(content),
                          !.it[inode_id + 1].blocks_count = Len(r.ids)],
          ok |-> TRUE]

\* file_ops.write_file_content: [d, ok]
WriteFileContent(D, inode_id, content) ==
    IF IsNone(GetInode(D, inode_id)) THEN [d |-> D, ok |-> FALSE]
    ELSE WriteContentFinish(inode_id, content,
             AllocateContentBlocks(
                 FreeDataBlocks(D, GetInode(D, inode_id).data_block_indices),
                 <<>>,
                 (Len(content) + D.sb.block_size - 1) \div D.sb.block_size))

\* file_ops.read_file_content: the direct blocks that can be read, cut at
\* the size of the file
RECURSIVE ReadContentBlocks(_, _)
ReadContentBlocks(D, ids) ==
    IF ids = <<>> THEN <<>>
    ELSE (IF ReadBlockExc(D, Head(ids)) THEN <<>> ELSE ReadBlock(D, Head(ids)))
         \o ReadContentBlocks(D, Tail(ids))
ReadFileContent(D, inode_id) ==
    Take(ReadContentBlocks(D, GetInode(D, inode_id).data_block_indices),
         GetInode(D, inode_id).size)

\* zlib.compress of a short content: the two header bytes 0x78 0x9c, the
\* literals and the two bytes that end the deflate stream, and the four
\* bytes of the checksum (8 bytes for the empty content)
ZlibHeader == <<ByteCell(120), ByteCell(156)>>
ZlibEnd == <<ByteCell(3), ByteCell(0)>>
ZlibChecksum(content) ==
    <<ZeroCell, ZeroCell, ZeroCell, ByteCell(1 + Len(content))>>
Compress(content) ==
    ZlibHeader \o content \o ZlibEnd \o ZlibChecksum(content)

\* zlib.decompress: [ok, content]; an error for what compress did not make
Decompress(data) ==
    IF /\ Len(data) >= 8
       /\ SubSeq(data, 1, 2) = ZlibHeader
       /\ SubSeq(data, Len(data) - 5, Len(data) - 4) = ZlibEnd
       /\ SubSeq(data, Len(data) - 3, Len(data))
            = ZlibChecksum(SubSeq(data, 3, Len(data) - 6))
    THEN [ok |-> TRUE, content |-> SubSeq(data, 3, Len(data) - 6)]
    ELSE [ok |-> FALSE, content |-> <<>>]

\* the length of a Fernet token of n bytes: the base64 text of a version
\* byte, 8 bytes of time, 16 of iv, the content padded to blocks of 16, and
\* 32 of hmac
FernetLen(n) == 4 * ((57 + 16 * (n \div 16 + 1) + 2) \div 3)

\* Fernet(key).encrypt(content) for the key derived from password: a cell
\* that only this key makes, the cells of the content under the key, and
\* cells that fill the token
FernetCell(b, password) == ByteCell(16 * password + b)
Token(content, password) ==
    <<ByteCell(128 + password)>>
    \o [i \in 1..Len(content) |-> FernetCell(content[i].v, password)]
    \o Repeat(ByteCell(61), FernetLen(Len(content)) - Len(content) - 1)

\* salt + encrypted_content, as encrypt_file stores it
SALT_LEN == 16
Encrypt(content, password) == Repeat(ByteCell(9), SALT_LEN) \o Token(content, password)

\* Fernet(key).decrypt(token): [ok, content]; InvalidToken for another key
\* and for what encrypt did not make
TokenBody(token) == SelectSeq(Tail(token), LAMBDA c : c.v # 61)
Untoken(token, password) ==
    [i \in 1..Len(TokenBody(token)) |->
        ByteCell(TokenBody(token)[i].v - 16 * password)]
Decrypt(token, password) ==
    IF /\ token # <<>>
       /\ token[1] = ByteCell(128 + password)
       /\ token = Token(Untoken(token, password), password)
    THEN [ok |-> TRUE, content |-> Untoken(token, password)]
    ELSE [ok |-> FALSE, content |-> <<>>]

Refuse(D) == [d |-> D, ok |-> FALSE]

\* the checks all four operations begin with
MayRewrite(D, uid, target_inode_id) ==
    /\ ~IsNone(GetInode(D, target_inode_id))
    /\ GetInode(D, target_inode_id).type = "FILE"
    /\ FileOpsCheckPermissions(GetInode(D, target_inode_id), uid, "write")

\* the end of encrypt_file and of decrypt_file, w being the outcome of
\* write_file_content
FlagEncrypted(target_inode_id, flag, w) ==
    IF ~w.ok THEN Refuse(w.d)
    ELSE [d |-> [w.d EXCEPT !.it[target_inode_id + 1].is_encrypted = flag],
          ok |-> TRUE]

\* file_ops.encrypt_file: [d, ok]
EncryptFile(D, uid, target_inode_id, password) ==
    IF ~MayRewrite(D, uid, target_inode_id) THEN Refuse(D)
    ELSE IF GetInode(D, target_inode_id).is_encrypted THEN Refuse(D)
    ELSE FlagEncrypted(target_inode_id, TRUE,
             WriteFileContent(D, target_inode_id,
                 Encrypt(ReadFileContent(D, target_inode_id), password)))

\* file_ops.decrypt_file: [d, ok]
DecryptFile(D, uid, target_inode_id, password) ==
    IF ~MayRewrite(D, uid, target_inode_id) THEN Refuse(D)
    ELSE IF ~GetInode(D, target_inode_id).is_encrypted THEN Refuse(D)
    ELSE IF Len(ReadFileContent(D, target_inode_id)) < SALT_LEN THEN Refuse(D)
    ELSE IF ~Decrypt(Drop(ReadFileContent(D, target_inode_id), SALT_LEN),
                     password).ok
    THEN Refuse(D)
    ELSE FlagEncrypted(target_inode_id, FALSE,
             WriteFileContent(D, target_inode_id,
                 Decrypt(Drop(ReadFileContent(D, target_inode_id), SALT_LEN),
                         password).content))

\* the end of compress_file, w being the outcome of write_file_content: the
\* compression ratio of the message divides by the original size, and the
\* ZeroDivisionError of an empty file is caught as a failure
CompressWritten(target_inode_id, original_size, w) ==
    IF ~w.ok THEN Refuse(w.d)
    ELSE [d |-> [w.d EXCEPT !.it[target_inode_id + 1].is_compressed = TRUE],
          ok |-> original_size # 0]

\* file_ops.compress_file: [d, ok]
CompressFile(D, uid, target_inode_id, compression_level) ==
    IF ~MayRewrite(D, uid, target_inode_id) THEN Refuse(D)
    ELSE IF GetInode(D, target_inode_id).is_compressed THEN Refuse(D)
    ELSE IF ~(1 <= compression_level /\ compression_level <= 9) THEN Refuse(D)
    ELSE CompressWritten(target_inode_id,
             Len(ReadFileContent(D, target_inode_id)),
             WriteFileContent(D, target_inode_id,
                 Compress(ReadFileContent(D, target_inode_id))))

\* the end of decompress_file
DecompressWritten(target_inode_id, w) ==
    IF ~w.ok THEN Refuse(w.d)
    ELSE [d |-> [w.d EXCEPT !.it[target_inode_id + 1].is_compressed = FALSE],
          ok |-> TRUE]

\* file_ops.decompress_file: [d, ok]
DecompressFile(D, uid, target_inode_id) ==
    IF ~MayRewrite(D, uid, target_inode_id) THEN Refuse(D)
    ELSE IF ~GetInode(D, target_inode_id).is_compressed THEN Refuse(D)
    ELSE IF ~Decompress(ReadFileContent(D, target_inode_id)).ok THEN Refuse(D)
    ELSE DecompressWritten(target_inode_id,
             WriteFileContent(D, target_inode_id,
                 Decompress(ReadFileContent(D, target_inode_id)).content))

\* ------------------------------------------------------------------ inputs
Names == {"a", "b"}
Uids == {ROOT_UID, GUEST_UID}
\* the uid a caller passes to the namespace operations: the logged-in user's,
\* or root's
Callers == {ROOT_UID} \cup ({current_user} \ {None})
InodeIds == 0..(NumInodes - 1)
Fds == 0..(MaxFds - 1)
\* the names given to login, and to create_user (the empty name included)
UserNames == {"root", "guest", "u", "v"}
NewUserNames == {"", "guest", "u"}
\* the uids given to create_user: none, root's, and two that are free, one
\* of them below the uid of guest
NewUids == {None, ROOT_UID, GUEST_UID + 1, GUEST_UID - 1}
\* the permissions given to chmod and set_permission: other-read alone
\* (0o004), other-write alone (0o002), the owner triad (0o700), and two
\* values that do not fit in 9 bits (0o1000 and -1)
PermValues == {4, 2, 448, 512, -1}
\* the group ids given to chown and chgrp
GroupIds == {None, 0, 1}
\* the passwords and the compression levels given to the four operations
Passwords == {1, 2}
Levels == {6, 0}
\* the operations asked of the permission checks
Operations == {"read", "write", "execute", "delete"}
\* the home inodes given to create_user
Homes == {None} \cup (0..(NumInodes - 1))
FormatConfigs == {[ni |-> NumInodes, nb |-> NumBlocks, bs |-> BlockSize]}
LargeConfig == [ni |-> NumInodes, nb |-> LargeNumBlocks, bs |-> LargeBlockSize]
\* arguments of format_disk that succeed, that leave no inode for the
\* root, no block for it, and a block too small for its entries
PersistConfigs ==
    {[ni |-> NumInodes, nb |-> NumBlocks, bs |-> BlockSize],
     [ni |-> 0, nb |-> NumBlocks, bs |-> BlockSize],
     [ni |-> NumInodes, nb |-> 0, bs |-> BlockSize],
     [ni |-> NumInodes, nb |-> NumBlocks, bs |-> TinyBlockSize]}
\* a disk with fewer blocks than inodes
ScarceConfig == [ni |-> LinkNumInodes, nb |-> NumBlocks, bs |-> BlockSize]
\* a disk whose root directory has room for two entries with short names
\* or for one with a wide name
RenameConfig == [ni |-> NumInodes, nb |-> NumBlocks, bs |-> RenameBlockSize]
\* the new names given to rename_item: short, wide, too long, invalid
NewNames == Names \cup {WideName, LongName, "."}
LinkConfig == [ni |-> LinkNumInodes, nb |-> LinkNumBlocks, bs |-> LargeBlockSize]
\* link targets: "a", "/a", "b"
LinkTargets == {<<1>>, <<Slash, 1>>, <<2>>}
\* required_blocks of allocate_file_blocks: within the direct blocks, all of
\* them, one and two more
BlockCounts == {1, DIRECT_BLOCK_CAP, DIRECT_BLOCK_CAP + 1, DIRECT_BLOCK_CAP + 2}
\* a string of n characters, alternating 1 and 2
Pattern(n) == [i \in 1..n |-> 1 + (i % 2)]
\* strings written to files: empty, a two-byte character, more
\* than one block, more than two blocks
Contents == {<<>>, <<3>>, Pattern(BlockSize + 1), Pattern(2 * BlockSize + 1)}
\* a string that fills one block more than the direct blocks of a file on
\* the large disk
LongContents == {Pattern(DIRECT_BLOCK_CAP * LargeBlockSize + 1)}
\* symbolic link targets: short, longer than a block
Targets == {<<1>>, Pattern(BlockSize + 1)}
Path(abs, comps) == [abs |-> abs, comps |-> comps]
Paths == {Path(TRUE, <<"a">>), Path(FALSE, <<"b">>), Path(FALSE, <<"a", "b">>),
          Path(TRUE, <<>>)}
\* paths with one component more than SYMLINK_MAX_DEPTH: "b/b/.../b" and
\* "../../.."
LongPaths == {Path(FALSE, Repeat("b", SYMLINK_MAX_DEPTH + 1)),
              Path(FALSE, Repeat("..", SYMLINK_MAX_DEPTH + 1))}
\* paths resolved on the disk with links: "b", "b/b", "/b/a", "a/b" and
\* the long ones
LinkPaths == {Path(FALSE, <<"b">>), Path(FALSE, <<"b", "b">>),
              Path(TRUE, <<"b", "a">>), Path(FALSE, <<"a", "b">>)}
             \cup LongPaths
ModeStrs == {"r", "w", "a", "r+"}
ReadSizes == {-1, 1, BlockSize + 1, 3 * BlockSize}

\* the observable outcome of the latest call; the arguments are kept for
\* the calls that did not fail
Last(op, args, status, ret, data) ==
    [op |-> op, args |-> IF status = "fail" THEN <<>> ELSE args,
     status |-> status, ret |-> ret, data |-> data]
Status(ok) == IF ok THEN "ok" ELSE "fail"

\* NthSmallest(S, n): the n-th smallest element of a set of integers
Rank(x, S) == Cardinality({y \in S : y < x}) + 1
NthSmallest(S, n) == CHOOSE x \in S : Rank(x, S) = n

\* ----------------------------------------------------------------- actions
\* one more call, while the run has calls left
Call == calls > 0 /\ calls' = calls - 1

Constructed ==
    /\ superblock = NewDisk.sb
    /\ inode_bitmap = NewDisk.ibm
    /\ data_block_bitmap = NewDisk.dbm
    /\ inode_table = NewDisk.it
    /\ data_blocks = NewDisk.blk
    /\ is_formatted = NewDisk.fmt
    /\ current_user = None
    /\ cwd = None
    /\ open_files = <<>>
    /\ detached = NoDetached
    /\ users = DEFAULT_USERS_DATA
    /\ last = Last("init", <<>>, "ok", None, <<>>)

Init == Constructed /\ calls = MaxCalls

\* the effect of dm.format_disk(...) on the state.  The Inode objects of the
\* old table that open-file entries still reference survive the call as
\* detached objects.
FormatStep(cfg, r) ==
    LET live == {open_files[fd].inode_id :
                    fd \in {f \in DOMAIN open_files : open_files[f].ref = 0}}
        free == {k \in 1..MaxFds :
                    \A fd \in DOMAIN open_files : open_files[fd].ref # k}
        slot(i) == NthSmallest(free, Rank(i, live))
    IN
    /\ SetDisk(r.d)
    /\ open_files' =
          [fd \in DOMAIN open_files |->
              IF open_files[fd].ref = 0
              THEN [open_files[fd] EXCEPT !.ref = slot(open_files[fd].inode_id)]
              ELSE open_files[fd]]
    /\ detached' =
          [k \in 1..MaxFds |->
              IF \E i \in live : slot(i) = k
              THEN inode_table[(CHOOSE i \in live : slot(i) = k) + 1]
              ELSE detached[k]]
    /\ UNCHANGED <<current_user, cwd, users>>
    /\ last' = Last("format_disk", <<cfg.ni, cfg.nb, cfg.bs>>, Status(r.ok),
                    None, <<>>)

format_disk ==
    /\ Call
    /\ \E cfg \in FormatConfigs :
          FormatStep(cfg, FormatDiskOp(cfg.ni, cfg.nb, cfg.bs))

\* format_disk of a disk large enough for a file with indirect blocks
format_large_disk ==
    /\ Call
    /\ FormatStep(LargeConfig,
                  FormatDiskOp(LargeConfig.ni, LargeConfig.nb, LargeConfig.bs))

make_directory ==
    /\ Call
    /\ \E uid \in Callers, parent \in InodeIds, name \in Names :
            LET r == MakeDirectory(Disk, uid, parent, name) IN
            /\ SetDisk(r.d)
            /\ UNCHANGED sessVars
            /\ last' = Last("make_directory", <<uid, parent, name>>, Status(r.ok),
                            r.ret, <<>>)

remove_directory ==
    /\ Call
    /\ \E uid \in Callers, parent \in InodeIds, name \in Names :
            LET r == RemoveDirectory(Disk, uid, parent, name) IN
            /\ SetDisk(r.d)
            /\ UNCHANGED sessVars
            /\ last' = Last("remove_directory", <<uid, parent, name>>, Status(r.ok),
                            None, <<>>)

rename_item ==
    /\ Call
    /\ \E uid \in Callers, parent \in InodeIds, old_name \in Names \cup {"."},
           new_name \in Names :
            LET r == RenameItem(Disk, uid, parent, old_name, new_name) IN
            /\ SetDisk(r.d)
            /\ UNCHANGED sessVars
            /\ last' = Last("rename_item", <<uid, parent, old_name, new_name>>,
                            Status(r.ok), None, <<>>)

create_file ==
    /\ Call
    /\ \E uid \in Callers, parent \in InodeIds, name \in Names :
            LET r == CreateFile(Disk, uid, parent, name) IN
            /\ SetDisk(r.d)
            /\ UNCHANGED sessVars
            /\ last' = Last("create_file", <<uid, parent, name>>, Status(r.ok),
                            r.ret, <<>>)

\* the effect of file_ops.create_symbolic_link on the state, r being its
\* outcome
CreateSymbolicLinkStep(uid, parent, name, target, r) ==
    /\ SetDisk(r.d)
    /\ UNCHANGED sessVars
    /\ last' = Last("create_symbolic_link", <<uid, parent, name, target>>,
                    r.status, r.ret, <<>>)

create_symbolic_link ==
    /\ Call
    /\ \E uid \in Callers, parent \in InodeIds, name \in Names \cup {LongName},
           target \in Targets :
          CreateSymbolicLinkStep(uid, parent, name, target,
              CreateSymbolicLink(Disk, uid, parent, name, target))

\* format_disk of a disk with room for a directory, a file in it and a link
format_link_disk ==
    /\ Call
    /\ FormatStep(LinkConfig,
                  FormatDiskOp(LinkConfig.ni, LinkConfig.nb, LinkConfig.bs))

\* create_symbolic_link with a target that is a path of this model
create_link_to_path ==
    /\ Call
    /\ \E uid \in Callers, parent \in InodeIds, name \in Names,
           target \in LinkTargets :
          CreateSymbolicLinkStep(uid, parent, name, target,
              CreateSymbolicLink(Disk, uid, parent, name, target))

\* a call of dir_ops._resolve_path_to_inode_id
resolve_path ==
    /\ Call
    /\ is_formatted
    /\ \E current_dir_inode_id \in InodeIds, path \in LinkPaths :
          /\ UNCHANGED diskVars
          /\ UNCHANGED sessVars
          /\ last' = Last("resolve_path", <<current_dir_inode_id, path>>, "ok",
                          ResolvePathToInodeId(Disk, current_dir_inode_id,
                                               superblock.root_inode_id, path),
                          <<>>)

\* the effect of file_ops.create_hard_link on the state, r being its outcome
CreateHardLinkStep(uid, parent, name, target, r) ==
    /\ SetDisk(r.d)
    /\ UNCHANGED sessVars
    /\ last' = Last("create_hard_link", <<uid, parent, name, target>>,
                    Status(r.ok), r.ret, <<>>)

create_hard_link ==
    /\ Call
    /\ \E uid \in Callers, parent \in InodeIds, name \in Names,
          target \in InodeIds \ {0} :
          CreateHardLinkStep(uid, parent, name, target,
                             CreateHardLink(Disk, uid, parent, name, target))

\* the effect of file_ops.delete_file on the state, r being its outcome
DeleteFileStep(uid, parent, name, r) ==
    /\ SetDisk(r.d)
    /\ UNCHANGED sessVars
    /\ last' = Last("delete_file", <<uid, parent, name>>, Status(r.ok),
                    None, <<>>)

delete_file ==
    /\ Call
    /\ \E uid \in Callers, parent \in InodeIds, name \in Names :
          DeleteFileStep(uid, parent, name, DeleteFile(Disk, uid, parent, name))

\* UserAuthenticator.login with the right password; the caller passes
\* superblock.root_inode_id.  No user of the default table has a home inode.
login ==
    /\ Call
    /\ \E uid \in Uids :
            /\ IF current_user # None
               THEN /\ UNCHANGED sessVars
                    /\ last' = Last("login", <<uid>>, "fail", None, <<>>)
               ELSE /\ current_user' = uid
                    /\ cwd' = superblock.root_inode_id
                    /\ open_files' = <<>>
                    /\ detached' = NoDetached
                    /\ UNCHANGED users
                    /\ last' = Last("login", <<uid>>, "ok", None, <<>>)
            /\ UNCHANGED diskVars

\* a logout that leaves the descriptors of the session open
logout_KeepFds ==
    /\ Call
    /\  /\ IF current_user # None
           THEN /\ current_user' = None
                /\ cwd' = None
                /\ UNCHANGED <<open_files, detached, users>>
                /\ last' = Last("logout", <<>>, "ok",
                                Cardinality(DOMAIN open_files), <<>>)
           ELSE /\ UNCHANGED sessVars
                /\ last' = Last("logout", <<>>, "fail", None, <<>>)
        /\ UNCHANGED diskVars

\* UserAuthenticator.logout; the warning it prints tells how many descriptors
\* it discarded
logout ==
    /\ Call
    /\  /\ IF current_user # None
           THEN /\ current_user' = None
                /\ cwd' = None
                /\ open_files' = <<>>
                /\ detached' = NoDetached
                /\ UNCHANGED users
                /\ last' = Last("logout", <<>>, "ok",
                                Cardinality(DOMAIN open_files), <<>>)
           ELSE /\ UNCHANGED sessVars
                /\ last' = Last("logout", <<>>, "fail", None, <<>>)
        /\ UNCHANGED diskVars

\* the uid create_user assigns when it is given none: above every uid of
\* the table that is not root's, and at least 1000
AutoUid(existing_uids) ==
    IF existing_uids \ {ROOT_UID} = {} THEN 1000
    ELSE LET max_non_root_uid ==
                 CHOOSE m \in existing_uids \ {ROOT_UID} :
                     \A x \in existing_uids \ {ROOT_UID} : x <= m
         IN IF max_non_root_uid + 1 > 1000 THEN max_non_root_uid + 1 ELSE 1000

\* UserAuthenticator.create_user
create_user ==
    /\ Call
    /\ \E new_username \in NewUserNames, new_uid \in NewUids, new_home_inode_id \in Homes :
          LET existing_uids == {users[n].uid : n \in DOMAIN users}
              ok == /\ new_username # ""
                    /\ new_username \notin DOMAIN users
                    /\ new_uid # None => new_uid \notin existing_uids
              assigned_uid == IF new_uid # None THEN new_uid
                              ELSE AutoUid(existing_uids)
          IN
          /\ users' = IF ok
                      THEN (new_username :> [uid |-> assigned_uid,
                                             home_inode_id |-> new_home_inode_id])
                           @@ users
                      ELSE users
          /\ UNCHANGED <<current_user, cwd, open_files, detached>>
          /\ UNCHANGED diskVars
          /\ last' = Last("create_user", <<new_username>>, Status(ok),
                          IF ok THEN assigned_uid ELSE None, <<>>)

\* the cwd UserAuthenticator.login gives the session of user
LoginCwd(user, root_inode_id) ==
    IF user.uid = ROOT_UID /\ root_inode_id # None THEN root_inode_id
    ELSE IF user.home_inode_id # None THEN user.home_inode_id
    ELSE IF root_inode_id # None THEN root_inode_id
    ELSE None

\* the root_inode_id the login window passes to login
RootIdForLogin ==
    IF is_formatted /\ superblock.present THEN superblock.root_inode_id
    ELSE None

\* UserAuthenticator.login as the login window calls it, for any user of
\* the table, a name that is in no table, and a wrong password
login_any_user ==
    /\ Call
    /\ \E username \in UserNames, password_ok \in BOOLEAN :
          /\ IF current_user # None
                 \/ username \notin DOMAIN users
                 \/ ~password_ok
             THEN /\ UNCHANGED sessVars
                  /\ last' = Last("login", <<username>>, "fail", None, <<>>)
             ELSE /\ current_user' = users[username].uid
                  /\ cwd' = LoginCwd(users[username], RootIdForLogin)
                  /\ open_files' = <<>>
                  /\ detached' = NoDetached
                  /\ UNCHANGED users
                  /\ last' = Last("login", <<username>>, "ok", None, <<>>)
          /\ UNCHANGED diskVars

\* dir_ops.change_directory followed by auth.set_cwd_inode_id (main.py)
change_directory ==
    /\ Call
    /\ \E path \in Paths :
            LET new_cwd_inode_id ==
                    ResolvePathToInodeId(Disk, cwd, superblock.root_inode_id, path)
                target_inode == GetInode(Disk, new_cwd_inode_id)
                ok == /\ current_user # None
                      /\ cwd # None /\ superblock.root_inode_id # None
                      /\ new_cwd_inode_id # None
                      /\ ~IsNone(target_inode)
                      /\ target_inode.type = "DIRECTORY"
            IN
            /\ cwd' = IF ok THEN new_cwd_inode_id ELSE cwd
            /\ UNCHANGED <<current_user, open_files, detached, users>>
            /\ UNCHANGED diskVars
            /\ last' = Last("change_directory", <<path>>, Status(ok),
                            IF ok THEN new_cwd_inode_id ELSE None, <<>>)

\* the effect of file_ops.open_file on the state, r being its outcome: the
\* entry takes the smallest free descriptor
OpenFileStep(path, mode_str, r) ==
    /\ SetDisk(r.d)
    /\ open_files' =
          IF r.ok
          THEN (MinFreeFd(open_files) :>
                   OpenFileEntry(r.inode_id, ParseOpenMode(mode_str),
                                 r.d.it[r.inode_id + 1].size)) @@ open_files
          ELSE open_files
    /\ UNCHANGED <<current_user, cwd, detached, users>>
    /\ last' = Last("open_file", <<path, mode_str>>, Status(r.ok),
                    IF r.ok THEN MinFreeFd(open_files) ELSE None, <<>>)

\* file_ops.open_file
open_file ==
    /\ Call
    /\ Cardinality(DOMAIN open_files) < MaxFds
    /\ \E path \in Paths, mode_str \in ModeStrs :
          OpenFileStep(path, mode_str,
                       OpenFileOp(Disk, current_user, cwd, path, mode_str))

\* file_ops.close_file
close_file ==
    /\ Call
    /\ \E fd \in Fds :
            LET ok == current_user # None /\ fd \in DOMAIN open_files
                rest == [f \in DOMAIN open_files \ {fd} |-> open_files[f]]
            IN
            /\ open_files' = IF ok THEN rest ELSE open_files
            /\ detached' = IF ok THEN Collect(detached, rest) ELSE detached
            /\ UNCHANGED <<current_user, cwd, users>>
            /\ UNCHANGED diskVars
            /\ last' = Last("close_file", <<fd>>, Status(ok), None, <<>>)

\* the effect of file_ops.write_file on the state, r being its outcome
WriteFileStep(fd, content_str, e, r) ==
    /\ SetDisk(IF e.ref = 0 THEN [r.d EXCEPT !.it[e.inode_id + 1] = r.x]
               ELSE r.d)
    /\ detached' = IF e.ref = 0 THEN detached
                   ELSE [detached EXCEPT ![e.ref] = r.x]
    /\ open_files' = [open_files EXCEPT ![fd].offset = r.offset]
    /\ UNCHANGED <<current_user, cwd, users>>
    /\ last' = Last("write_file", <<fd, content_str>>, Status(r.ok), r.ret, <<>>)

\* file_ops.write_file
write_file ==
    /\ Call
    /\ \E fd \in Fds, content_str \in Contents :
        IF current_user = None \/ fd \notin DOMAIN open_files
           \/ open_files[fd].mode \notin {"WRITE", "APPEND", "READ_WRITE"}
        THEN /\ UNCHANGED diskVars
             /\ UNCHANGED sessVars
             /\ last' = Last("write_file", <<fd, content_str>>, "fail", None, <<>>)
        ELSE WriteFileStep(fd, content_str, open_files[fd],
                           WriteFileOp(Disk, InodeRef(Disk, detached, open_files[fd]),
                                       open_files[fd].offset, content_str))

\* file_ops.write_file with a string longer than the direct blocks hold
write_long_file ==
    /\ Call
    /\ \E fd \in Fds, content_str \in LongContents :
        IF current_user = None \/ fd \notin DOMAIN open_files
           \/ open_files[fd].mode \notin {"WRITE", "APPEND", "READ_WRITE"}
        THEN /\ UNCHANGED diskVars
             /\ UNCHANGED sessVars
             /\ last' = Last("write_file", <<fd, content_str>>, "fail", None, <<>>)
        ELSE WriteFileStep(fd, content_str, open_files[fd],
                           WriteFileOp(Disk, InodeRef(Disk, detached, open_files[fd]),
                                       open_files[fd].offset, content_str))

\* file_ops.read_file
read_file ==
    /\ Call
    /\ \E fd \in Fds, num_bytes_to_read \in ReadSizes :
            IF current_user = None \/ fd \notin DOMAIN open_files
               \/ open_files[fd].mode \notin {"READ", "READ_WRITE", "APPEND"}
            THEN /\ UNCHANGED diskVars
                 /\ UNCHANGED sessVars
                 /\ last' = Last("read_file", <<fd, num_bytes_to_read>>, "fail",
                                 None, <<>>)
            ELSE
            LET e == open_files[fd]
                r == ReadFileOp(Disk, InodeRef(Disk, detached, e), e.offset,
                                num_bytes_to_read)
            IN
            /\ open_files' = [open_files EXCEPT ![fd].offset = r.offset]
            /\ UNCHANGED <<current_user, cwd, detached, users>>
            /\ UNCHANGED diskVars
            /\ last' = Last("read_file", <<fd, num_bytes_to_read>>, Status(r.ok),
                            None, r.data)

Next ==
    \/ format_disk
    \/ make_directory
    \/ remove_directory
    \/ rename_item
    \/ create_file
    \/ create_symbolic_link
    \/ create_hard_link
    \/ delete_file
    \/ login
    \/ logout
    \/ change_directory
    \/ open_file
    \/ close_file
    \/ write_file
    \/ read_file

Spec == Init /\ [][Next]_vars

\* the namespace operations alone, called directly on the disk manager
NextDir ==
    \/ format_disk
    \/ make_directory
    \/ remove_directory
    \/ rename_item
    \/ create_file
    \/ create_symbolic_link
    \/ create_hard_link
    \/ delete_file

InitDir == Constructed /\ calls = MaxCallsDir

SpecDir == InitDir /\ [][NextDir]_vars

\* a session working on files through descriptors
NextFile ==
    \/ format_disk
    \/ login
    \/ logout
    \/ open_file
    \/ close_file
    \/ write_file
    \/ read_file

InitFile == Constructed /\ calls = MaxCallsFile

SpecFile == InitFile /\ [][NextFile]_vars

\* ------------------------------------------------- allocator and block maps
\* what free_inode and free_data_block print: "Error" for an id out of
\* range, "Warning" for an id that is already free, nothing otherwise
FreeStatus(id, bitmap) ==
    IF ~superblock.present \/ id < 0 \/ id >= Len(bitmap) THEN "error"
    ELSE IF bitmap[id + 1] THEN "warning" ELSE "ok"

allocate_inode ==
    /\ Call
    /\ \E uid \in Callers :
        LET r == AllocateInode(Disk) IN
        /\ SetDisk(r.d)
        /\ UNCHANGED sessVars
        /\ last' = Last("allocate_inode", <<uid>>,
                        Status(r.ret # None), r.ret, <<>>)

free_inode ==
    /\ Call
    /\ \E inode_id \in -1..NumInodes :
        /\ SetDisk(FreeInode(Disk, inode_id))
        /\ UNCHANGED sessVars
        /\ last' = Last("free_inode", <<inode_id>>,
                        FreeStatus(inode_id, inode_bitmap), None, <<>>)

allocate_data_block ==
    /\ Call
    /\ LET r == AllocateDataBlock(Disk) IN
        /\ SetDisk(r.d)
        /\ UNCHANGED sessVars
        /\ last' = Last("allocate_data_block", <<>>,
                        Status(r.ret # None), r.ret, <<>>)

free_data_block ==
    /\ Call
    /\ \E block_id \in -1..NumBlocks :
        /\ SetDisk(FreeDataBlock(Disk, block_id))
        /\ UNCHANGED sessVars
        /\ last' = Last("free_data_block", <<block_id>>,
                        FreeStatus(block_id, data_block_bitmap), None, <<>>)

\* the effect of dm.allocate_file_blocks(dm.get_inode(inode_id), n), r being
\* its outcome: the inode object is the one in the table
AllocateFileBlocksStep(inode_id, required_blocks, r) ==
    /\ SetDisk([r.d EXCEPT !.it[inode_id + 1] = r.x])
    /\ UNCHANGED sessVars
    /\ last' = Last("allocate_file_blocks", <<inode_id, required_blocks>>,
                    Status(r.ok), None, <<>>)

\* dm.allocate_file_blocks on the inode of a plain file
allocate_file_blocks ==
    /\ Call
    /\ \E inode_id \in InodeIds, required_blocks \in BlockCounts :
        IF GetInode(Disk, inode_id).type # "FILE"
        THEN /\ UNCHANGED diskVars
             /\ UNCHANGED sessVars
             /\ last' = Last("allocate_file_blocks", <<>>, "fail", None, <<>>)
        ELSE AllocateFileBlocksStep(inode_id, required_blocks,
                 AllocateFileBlocks(Disk, GetInode(Disk, inode_id),
                                    required_blocks))

WriteFileContentStep(inode_id, content, r) ==
    /\ SetDisk(r.d)
    /\ UNCHANGED sessVars
    /\ last' = Last("write_file_content", <<inode_id, content>>,
                    Status(r.ok), None, <<>>)

\* file_ops.write_file_content on the inode of a plain file, as its callers
\* (encrypt_file, compress_file, ...) call it
write_file_content ==
    /\ Call
    /\ \E inode_id \in InodeIds, content_str \in Contents :
        IF GetInode(Disk, inode_id).type # "FILE"
        THEN /\ UNCHANGED diskVars
             /\ UNCHANGED sessVars
             /\ last' = Last("write_file_content", <<>>, "fail", None, <<>>)
        ELSE WriteFileContentStep(inode_id, Encode(content_str),
                 WriteFileContent(Disk, inode_id, Encode(content_str)))

\* the allocator called directly, among the operations that use it
NextAlloc ==
    \/ format_disk
    \/ allocate_inode
    \/ free_inode
    \/ allocate_data_block
    \/ free_data_block
    \/ make_directory
    \/ remove_directory
    \/ create_file
    \/ create_symbolic_link
    \/ login
    \/ open_file
    \/ write_file

InitAlloc == Constructed /\ calls = MaxCallsAlloc

SpecAlloc == InitAlloc /\ [][NextAlloc]_vars

\* files, their links and their block maps on the large disk
NextLarge ==
    \/ format_large_disk
    \/ create_file
    \/ create_hard_link
    \/ delete_file
    \/ allocate_file_blocks
    \/ write_file_content

InitLarge == Constructed /\ calls = MaxCallsLarge

SpecLarge == InitLarge /\ [][NextLarge]_vars

\* files whose block maps the allocator has grown, opened in a session
NextTrunc ==
    \/ format_large_disk
    \/ create_file
    \/ allocate_file_blocks
    \/ write_file_content
    \/ login
    \/ open_file

InitTrunc == Constructed /\ calls = MaxCallsTrunc

SpecTrunc == InitTrunc /\ [][NextTrunc]_vars

\* permissions_utils.chmod
chmod ==
    /\ Call
    /\ \E uid \in Uids, target_inode_id \in InodeIds, new_permissions \in PermValues :
          LET r == Chmod(Disk, uid, target_inode_id, new_permissions) IN
          /\ SetDisk(r.d)
          /\ UNCHANGED sessVars
          /\ last' = Last("chmod", <<uid, target_inode_id, new_permissions>>,
                          Status(r.ok), None, <<>>)

\* permissions_utils.chown
chown ==
    /\ Call
    /\ \E uid \in Uids, target_inode_id \in InodeIds, new_owner_uid \in Uids, new_group_id \in GroupIds :
          LET r == Chown(Disk, uid, target_inode_id, new_owner_uid, new_group_id) IN
          /\ SetDisk(r.d)
          /\ UNCHANGED sessVars
          /\ last' = Last("chown", <<uid, target_inode_id, new_owner_uid>>,
                          Status(r.ok), None, <<>>)

\* permissions_utils.chgrp
chgrp ==
    /\ Call
    /\ \E uid \in Uids, target_inode_id \in InodeIds, new_group_id \in GroupIds \ {None} :
          LET r == Chgrp(Disk, uid, target_inode_id, new_group_id) IN
          /\ SetDisk(r.d)
          /\ UNCHANGED sessVars
          /\ last' = Last("chgrp", <<uid, target_inode_id, new_group_id>>,
                          Status(r.ok), None, <<>>)

\* the inodes of the table, as dm.get_inode gives them to the callers of
\* set_permission and change_owner
TableIds == {i \in 0..(Len(inode_table) - 1) : inode_table[i + 1].type # "NONE"}

\* permissions_utils.set_permission
set_permission ==
    /\ Call
    /\ \E inode_id \in TableIds, user_uid \in Uids, new_permissions \in PermValues :
          LET r == SetPermission(Disk, inode_id, user_uid, new_permissions) IN
          /\ SetDisk(r.d)
          /\ UNCHANGED sessVars
          /\ last' = Last("set_permission", <<inode_id, user_uid, new_permissions>>,
                          Status(r.ok), None, <<>>)

\* permissions_utils.change_owner
change_owner ==
    /\ Call
    /\ \E inode_id \in TableIds, current_user_uid \in Uids, new_owner_uid \in Uids :
          LET r == ChangeOwner(Disk, inode_id, current_user_uid, new_owner_uid) IN
          /\ SetDisk(r.d)
          /\ UNCHANGED sessVars
          /\ last' = Last("change_owner", <<inode_id, current_user_uid, new_owner_uid>>,
                          Status(r.ok), None, <<>>)

\* permissions and owners of the inodes of a small tree
NextPerm ==
    \/ format_disk
    \/ create_file
    \/ chmod
    \/ chown
    \/ chgrp
    \/ set_permission
    \/ change_owner

InitPerm == Constructed /\ calls = MaxCallsPerm

SpecPerm == InitPerm /\ [][NextPerm]_vars

\* the effect of one of the four operations on the state
RewriteStep(op, args, r) ==
    /\ SetDisk(r.d)
    /\ UNCHANGED sessVars
    /\ last' = [op |-> op, args |-> args, status |-> Status(r.ok),
                ret |-> None, data |-> <<>>]

\* file_ops.encrypt_file
encrypt_file ==
    /\ Call
    /\ \E uid \in Uids, target_inode_id \in InodeIds, password \in Passwords :
          RewriteStep("encrypt_file", <<uid, target_inode_id>>,
                      EncryptFile(Disk, uid, target_inode_id, password))

\* file_ops.decrypt_file
decrypt_file ==
    /\ Call
    /\ \E uid \in Uids, target_inode_id \in InodeIds, password \in Passwords :
          RewriteStep("decrypt_file", <<uid, target_inode_id>>,
                      DecryptFile(Disk, uid, target_inode_id, password))

\* file_ops.compress_file
compress_file ==
    /\ Call
    /\ \E uid \in Uids, target_inode_id \in InodeIds, compression_level \in Levels :
          RewriteStep("compress_file", <<uid, target_inode_id>>,
                      CompressFile(Disk, uid, target_inode_id, compression_level))

\* file_ops.decompress_file
decompress_file ==
    /\ Call
    /\ \E uid \in Uids, target_inode_id \in InodeIds :
          RewriteStep("decompress_file", <<uid, target_inode_id>>,
                      DecompressFile(Disk, uid, target_inode_id))

\* a file grown past twelve blocks by write_file and by allocate_file_blocks
NextGrow ==
    \/ format_large_disk
    \/ create_file
    \/ login
    \/ open_file
    \/ allocate_file_blocks
    \/ write_long_file
    \/ read_file

InitGrow == Constructed /\ calls = MaxCallsGrow

SpecGrow == InitGrow /\ [][NextGrow]_vars

\* a session that enters directories and removes them
NextCwd ==
    \/ format_disk
    \/ login
    \/ make_directory
    \/ change_directory
    \/ remove_directory

InitCwd == Constructed /\ calls = MaxCallsCwd

SpecCwd == InitCwd /\ [][NextCwd]_vars

\* files encrypted and compressed by their owner and by others
NextCrypt ==
    \/ format_large_disk
    \/ create_file
    \/ chmod
    \/ write_file_content
    \/ encrypt_file
    \/ decrypt_file
    \/ compress_file
    \/ decompress_file

InitCrypt == Constructed /\ calls = MaxCallsCrypt

SpecCrypt == InitCrypt /\ [][NextCrypt]_vars

\* users created with and without a home, and their sessions
NextLogin ==
    \/ format_disk
    \/ create_user
    \/ login_any_user
    \/ logout
    \/ open_file

InitLogin == Constructed /\ calls = MaxCallsLogin

SpecLogin == InitLogin /\ [][NextLogin]_vars

\* symbolic links and the resolution of paths that meet them
\* format_disk with arguments that may make it fail
format_any_disk ==
    /\ Call
    /\ \E cfg \in PersistConfigs :
          FormatStep(cfg, FormatDiskOp(cfg.ni, cfg.nb, cfg.bs))

\* the program saves the disk, ends, starts again and loads the image
\* (main.py: a new UserAuthenticator, then load_disk_image, and a new
\* DiskManager when it returns None)
save_and_load_disk_image ==
    /\ Call
    /\ SetDisk(IF LoadDiskImage(SaveDiskImage(Disk)).ok
               THEN LoadDiskImage(SaveDiskImage(Disk)).d ELSE NewDisk)
    /\ current_user' = None
    /\ cwd' = None
    /\ open_files' = <<>>
    /\ detached' = NoDetached
    /\ users' = DEFAULT_USERS_DATA
    /\ last' = Last("load_disk_image", <<>>,
                    Status(LoadDiskImage(SaveDiskImage(Disk)).ok), None, <<>>)

NextPersist ==
    \/ format_any_disk
    \/ make_directory
    \/ create_file
    \/ save_and_load_disk_image

InitPersist == Constructed /\ calls = MaxCallsPersist

SpecPersist == InitPersist /\ [][NextPersist]_vars

format_scarce_disk ==
    /\ Call
    /\ FormatStep(ScarceConfig,
                  FormatDiskOp(ScarceConfig.ni, ScarceConfig.nb, ScarceConfig.bs))

\* creations on a disk that runs out of blocks before it runs out of inodes
NextScarce ==
    \/ format_scarce_disk
    \/ make_directory
    \/ create_file

InitScarce == Constructed /\ calls = MaxCallsScarce

SpecScarce == InitScarce /\ [][NextScarce]_vars

format_rename_disk ==
    /\ Call
    /\ FormatStep(RenameConfig,
                  FormatDiskOp(RenameConfig.ni, RenameConfig.nb, RenameConfig.bs))

\* rename_item with old and new names of every kind
rename_any_item ==
    /\ Call
    /\ \E uid \in Callers, parent \in InodeIds, old_name \in Names \cup {WideName},
           new_name \in NewNames :
            LET r == RenameItem(Disk, uid, parent, old_name, new_name) IN
            /\ SetDisk(r.d)
            /\ UNCHANGED sessVars
            /\ last' = Last("rename_item", <<uid, parent, old_name, new_name>>,
                            Status(r.ok), None, <<>>)

NextRename ==
    \/ format_rename_disk
    \/ login
    \/ create_file
    \/ rename_any_item

InitRename == Constructed /\ calls = MaxCallsRename

SpecRename == InitRename /\ [][NextRename]_vars

NextLink ==
    \/ format_link_disk
    \/ make_directory
    \/ create_file
    \/ create_link_to_path
    \/ resolve_path

InitLink == Constructed /\ calls = MaxCallsLink

SpecLink == InitLink /\ [][NextLink]_vars

\* a session whose descriptors stay open while the disk is formatted again
NextStale ==
    \/ format_disk
    \/ login
    \/ open_file
    \/ write_file
    \/ make_directory

InitStale == Constructed /\ calls = MaxCallsStale

SpecStale == InitStale /\ [][NextStale]_vars

\* ------------------------------------------------------------------ claims
\* the inodes currently in the inode table
TableInodes == {inode_table[i] : i \in {j \in 1..Len(inode_table) :
                                          inode_table[j].type # "NONE"}}

\* the blocks reachable from the block map of an inode: its direct blocks,
\* its indirect blocks and the blocks these list
BlocksOf(inode) ==
    Range(GetFileBlockIndices(Disk, inode))
    \cup Range(inode.indirect_block_indices)
    \cup Range(inode.double_indirect_block_indices)
    \cup Range(ReadIndirectBlocks(Disk, inode.double_indirect_block_indices))

ReachableBlocks == UNION {BlocksOf(inode) : inode \in TableInodes}

AfterSuccess == is_formatted /\ last.status = "ok"

\* C1: after a successful operation on a formatted disk, a data block is
\* marked allocated in data_block_bitmap if and only if it is reachable from
\* the block map of some inode of the inode table.
C1_AllocatedIffReachable ==
    AfterSuccess =>
        \A b \in 0..(Len(data_block_bitmap) - 1) :
            (~data_block_bitmap[b + 1]) <=> (b \in ReachableBlocks)

\* C2: after a successful operation on a formatted disk, inode_bitmap[i] is
\* free exactly when inode_table[i] is empty, for every inode index i.
C2_InodeBitmapMatchesTable ==
    AfterSuccess =>
        \A i \in 1..Len(inode_bitmap) :
            inode_bitmap[i] <=> (inode_table[i].type = "NONE")

\* C3: on a formatted disk, whatever calls of the allocator (double frees and
\* frees of ids out of range included) and of the operations that use it
\* were made, free_inodes_count is the number of free bits of inode_bitmap
\* and free_blocks_count the number of free bits of data_block_bitmap.
C3_FreeCountsMatchBitmaps ==
    superblock.present =>
        /\ superblock.free_inodes_count = CountTrue(inode_bitmap)
        /\ superblock.free_blocks_count = CountTrue(data_block_bitmap)

\* a block that is already free was freed again, on a disk
\* on which blocks are allocated
C3_Witness ==
    /\ is_formatted
    /\ last.op = "free_data_block"
    /\ last.status = "warning"
    /\ superblock.free_blocks_count < superblock.total_blocks

\* the entries of the directories of the inode table, as
\* _read_directory_entries reads them
DirectoryIds == {i \in 0..(Len(inode_table) - 1) :
                    inode_table[i + 1].type = "DIRECTORY"}
EntriesOf(dir_inode_id) ==
    IF ReadDirectoryEntries(Disk, dir_inode_id).ok
    THEN ReadDirectoryEntries(Disk, dir_inode_id).entries
    ELSE <<>>
\* the directory entries, over all directories, whose inode_id is inode_id
EntriesTo(inode_id) ==
    UNION {{<<d, k>> : k \in {j \in DOMAIN EntriesOf(d) :
                                   EntriesOf(d)[j].inode_id = inode_id}} :
           d \in DirectoryIds}

\* C4: after a successful operation, the link_count of every allocated
\* inode of type FILE is the number of directory entries, over all
\* directories, whose inode_id is the id of that inode.
C4_LinkCountIsEntryCount ==
    AfterSuccess =>
        \A i \in 0..(Len(inode_table) - 1) :
            inode_table[i + 1].type = "FILE" =>
                inode_table[i + 1].link_count = Cardinality(EntriesTo(i))

\* C5: after a successful operation, every inode F of type FILE has
\* F.size <= F.blocks_count * block_size, get_file_block_indices(F) returns
\* exactly F.blocks_count block ids, and each of them is marked allocated.
C5_SizeAndBlockCount ==
    AfterSuccess =>
        \A F \in {inode \in TableInodes : inode.type = "FILE"} :
            /\ F.size <= F.blocks_count * superblock.block_size
            /\ Len(GetFileBlockIndices(Disk, F)) = F.blocks_count
            /\ \A b \in Range(GetFileBlockIndices(Disk, F)) :
                  ~data_block_bitmap[b + 1]

\* directory d has an entry called name whose inode_id is inode_id
HasEntry(d, name, inode_id) ==
    \E k \in DOMAIN EntriesOf(d) :
        EntriesOf(d)[k].name = name /\ EntriesOf(d)[k].inode_id = inode_id

\* the directories that list d under a name other than "." and ".."
ParentsOf(d) ==
    {p \in DirectoryIds :
        \E k \in DOMAIN EntriesOf(p) :
            /\ EntriesOf(p)[k].name \notin {".", ".."}
            /\ EntriesOf(p)[k].inode_id = d}

\* C6: after a successful operation, every allocated directory has an entry
\* "." whose inode_id is the directory itself and an entry ".." whose
\* inode_id is its parent directory, the root itself for the root.
C6_DotAndDotDot ==
    AfterSuccess =>
        \A d \in DirectoryIds :
            /\ HasEntry(d, ".", d)
            /\ IF d = superblock.root_inode_id
               THEN HasEntry(d, "..", d)
               ELSE \E p \in ParentsOf(d) : HasEntry(d, "..", p)

\* the inode id that directory parent lists under name, None when it has
\* no such entry
EntryTarget(parent, name) ==
    IF \E k \in DOMAIN EntriesOf(parent) : EntriesOf(parent)[k].name = name
    THEN EntriesOf(parent)[FindEntry(EntriesOf(parent), name)].inode_id
    ELSE None

\* name is an entry of directory parent for an allocated inode of type FILE
\* with link_count k, and uid may write to parent
DeletePre(uid, parent, name, k) ==
    /\ is_formatted
    /\ parent \in DirectoryIds
    /\ CheckPermission(inode_table[parent + 1], uid, PermissionsWRITE)
    /\ EntryTarget(parent, name) \in InodeIds
    /\ inode_table[EntryTarget(parent, name) + 1].type = "FILE"
    /\ inode_table[EntryTarget(parent, name) + 1].link_count = k

\* what delete_file(parent, name) has to leave behind for file inode id
\* that had link_count k and the blocks in blocks
DeletePost(parent, name, id, k, blocks) ==
    /\ last'.status = "ok"
    /\ EntryTarget(parent, name)' = None
    /\ IF k = 1
       THEN /\ inode_bitmap'[id + 1]
            /\ inode_table'[id + 1].type = "NONE"
            /\ \A b \in blocks : data_block_bitmap'[b + 1]
       ELSE /\ ~inode_bitmap'[id + 1]
            /\ inode_table'[id + 1] =
                   [inode_table[id + 1] EXCEPT !.link_count = k - 1]
            /\ \A b \in blocks : ~data_block_bitmap'[b + 1]
            /\ \A b \in blocks : data_blocks'[b + 1] = data_blocks[b + 1]

\* C7: delete_file on a name whose inode has link_count 1 succeeds, removes
\* the entry from the parent and frees the inode and all of its data blocks;
\* on a name whose inode has link_count k > 1 it succeeds, removes only that
\* entry and sets link_count to k - 1, the inode and its blocks staying
\* allocated with their content.
C7_DeleteFile ==
    [][\A uid \in Callers, parent \in InodeIds, name \in Names, k \in 1..NumInodes :
          (/\ DeletePre(uid, parent, name, k)
           /\ DeleteFileStep(uid, parent, name,
                             DeleteFile(Disk, uid, parent, name)))
          => DeletePost(parent, name, EntryTarget(parent, name), k,
                        BlocksOf(inode_table[EntryTarget(parent, name) + 1]))]_vars

\* target is an allocated inode of type FILE, parent a directory that uid
\* may write to, that has no entry called name and room for one more
LinkPre(uid, parent, name, target) ==
    /\ is_formatted
    /\ target \in InodeIds
    /\ inode_table[target + 1].type = "FILE"
    /\ parent \in DirectoryIds
    /\ CheckPermission(inode_table[parent + 1], uid, PermissionsWRITE)
    /\ ReadDirectoryEntries(Disk, parent).ok
    /\ EntryTarget(parent, name) = None
    /\ Len(EntriesOf(parent)) + 2 <= superblock.block_size

\* C8: create_hard_link for an allocated FILE inode, a link name not yet in
\* parent and a caller with write permission on parent succeeds: parent gets
\* exactly one more entry (link_name, target, is_hardlink = true), its other
\* entries stay readable as they were, the link_count of the target grows
\* by exactly 1 and no inode is allocated.
C8_CreateHardLink ==
    [][\A uid \in Callers, parent \in InodeIds, name \in Names,
          target \in InodeIds \ {0} :
          (/\ LinkPre(uid, parent, name, target)
           /\ CreateHardLinkStep(uid, parent, name, target,
                   CreateHardLink(Disk, uid, parent, name, target)))
          => /\ last'.status = "ok"
             /\ ReadDirectoryEntries(Disk, parent)'.ok
             /\ EntriesOf(parent)' =
                    Append(EntriesOf(parent), DirectoryEntry(name, target, TRUE))
             /\ inode_table'[target + 1].link_count =
                    inode_table[target + 1].link_count + 1
             /\ inode_bitmap' = inode_bitmap]_vars

\* read_file of num_bytes_to_read bytes through a descriptor newly opened
\* in READ mode on path, on the disk D
ReadBack(D, path, num_bytes_to_read, o) ==
    [ok |-> o.ok,
     inode_id |-> o.inode_id,
     size |-> IF o.ok THEN o.d.it[o.inode_id + 1].size ELSE 0,
     r |-> IF o.ok
           THEN ReadFileOp(o.d, o.d.it[o.inode_id + 1],
                           OpenFileEntry(o.inode_id, "READ", 0).offset,
                           num_bytes_to_read)
           ELSE [ok |-> FALSE, data |-> <<>>, offset |-> 0]]

\* the outcome w of write_file(content_str) through a descriptor newly
\* opened in WRITE mode on path (outcome o of open_file), then close_file,
\* open_file(path, "r") and read_file of num_bytes_to_read bytes
RoundTrip(path, content_str, num_bytes_to_read, o, w) ==
    ReadBack([w.d EXCEPT !.it[o.inode_id + 1] = w.x], path, num_bytes_to_read,
             OpenFileOp([w.d EXCEPT !.it[o.inode_id + 1] = w.x],
                        current_user, cwd, path, "r"))

\* the read returned exactly the bytes of content_str, from the inode that
\* was written, whose size is their number
ReadBackIs(content_str, inode_id, rb) ==
    /\ rb.ok
    /\ rb.inode_id = inode_id
    /\ rb.r.ok
    /\ rb.r.data = Encode(content_str)
    /\ rb.size = Len(Encode(content_str))

RoundTripHolds(path, content_str, o, w) ==
    w.ok =>
        \A n \in {Len(Encode(content_str)), Len(Encode(content_str)) + 1,
                  3 * BlockSize} :
            n >= Len(Encode(content_str)) =>
                ReadBackIs(content_str, o.inode_id,
                           RoundTrip(path, content_str, n, o, w))

WrittenHolds(path, content_str, o) ==
    (o.ok /\ o.d.it[o.inode_id + 1].type = "FILE") =>
        RoundTripHolds(path, content_str, o,
            WriteFileOp(o.d, o.d.it[o.inode_id + 1],
                        OpenFileEntry(o.inode_id, "WRITE",
                                      o.d.it[o.inode_id + 1].size).offset,
                        content_str))

\* C9: in every reachable state, for every content, including contents that
\* span several blocks: when it is written with write_file through a
\* descriptor opened in WRITE mode on a plain file, then after close_file
\* and open_file in READ mode, read_file for at least as many bytes as the
\* content has returns exactly the bytes written, and the size of the inode
\* is their number.
C9_WriteReadRoundTrip ==
    \A path \in Paths, content_str \in Contents :
        WrittenHolds(path, content_str,
                     OpenFileOp(Disk, current_user, cwd, path, "w"))

\* what a successful write_file through descriptor fd that ends at offset E
\* has to leave behind; X is the inode object of the descriptor before the
\* call and Xn the same object after it
WriteEnds(fd, X, Xn, E) ==
    /\ Xn.size = E
    /\ open_files'[fd].offset = E
    /\ E < X.size =>
         LET n == (E + superblock.block_size - 1) \div superblock.block_size
             dropped == Drop(X.data_block_indices, Min(n, Len(X.data_block_indices)))
         IN
         /\ Xn.blocks_count = n
         /\ Xn.data_block_indices =
                Take(X.data_block_indices, Min(n, Len(X.data_block_indices)))
         /\ \A b \in Range(dropped) : data_block_bitmap'[b + 1]
         /\ superblock'.free_blocks_count =
                superblock.free_blocks_count + Len(dropped)

\* C10: when write_file completes successfully and ends at offset E, the
\* size of the file and the offset of the descriptor are both E; if E is
\* smaller than the previous size, blocks_count becomes ceil(E / block_size),
\* the block map keeps only its first ceil(E / block_size) blocks, every
\* block dropped from the tail is marked free in data_block_bitmap and
\* free_blocks_count grows by exactly the number of blocks dropped.
C10_WriteEndsAtOffset ==
    [][\A fd \in Fds, content_str \in Contents :
          (/\ current_user # None
           /\ fd \in DOMAIN open_files
           /\ open_files[fd].mode \in {"WRITE", "APPEND", "READ_WRITE"}
           /\ WriteFileStep(fd, content_str, open_files[fd],
                  WriteFileOp(Disk, InodeRef(Disk, detached, open_files[fd]),
                              open_files[fd].offset, content_str))
           /\ last'.status = "ok")
          => WriteEnds(fd, InodeRef(Disk, detached, open_files[fd]),
                       InodeRef(Disk, detached, open_files[fd])',
                       open_files[fd].offset + Len(Encode(content_str)))]_vars

\* what a write_file through descriptor fd, started at offset o with the
\* bytes content_bytes and stopped by a full disk, has to leave behind; Xn
\* is the inode object of the descriptor after the call and k the number
\* of bytes the call reports
PartialWrite(fd, o, content_bytes, Xn, k) ==
    /\ k \in 0..(Len(content_bytes) - 1)
    /\ Xn.size = o + k
    /\ open_files'[fd].offset = o + k
    /\ ReadFileOp(Disk', Xn, o, k).ok
    /\ ReadFileOp(Disk', Xn, o, k).data = Take(content_bytes, k)
    /\ \A b \in 0..(Len(data_block_bitmap) - 1) :
          (data_block_bitmap[b + 1] /\ ~data_block_bitmap'[b + 1])
              => b \in Range(Xn.data_block_indices)

\* C11: when write_file cannot allocate a data block part-way through a
\* write, it reports bytes_written = k for the k bytes already stored, the
\* size of the file and the offset of the descriptor are the offset before
\* the call plus k, those k bytes are readable, and no block that the call
\* allocated is missing from the block map of the file.
C11_PartialWriteOnFullDisk ==
    [][\A fd \in Fds, content_str \in Contents :
          (/\ current_user # None
           /\ fd \in DOMAIN open_files
           /\ open_files[fd].mode \in {"WRITE", "APPEND", "READ_WRITE"}
           /\ WriteLoop(Disk, InodeRef(Disk, detached, open_files[fd]),
                        Encode(content_str), 0, open_files[fd].offset, 0).status
                  = "disk_full"
           /\ WriteFileStep(fd, content_str, open_files[fd],
                  WriteFileOp(Disk, InodeRef(Disk, detached, open_files[fd]),
                              open_files[fd].offset, content_str)))
          => PartialWrite(fd, open_files[fd].offset, Encode(content_str),
                          InodeRef(Disk, detached, open_files[fd])',
                          last'.ret)]_vars

\* a write of more than two blocks stopped on the full disk after two blocks
C11_Witness ==
    /\ last.op = "write_file"
    /\ last.status = "fail"
    /\ last.ret = 2 * BlockSize
    /\ superblock.free_blocks_count = 0

\* the symbolic links that directory p lists under name l
IsLink(p, l) ==
    /\ EntryTarget(p, l) # None
    /\ GetInode(Disk, EntryTarget(p, l)).type = "SYMBOLIC_LINK"
    /\ GetInode(Disk, EntryTarget(p, l)).data_block_indices # <<>>

\* the target of a symbolic link as a path: the first inode.size bytes of
\* its data block
LinkTargetOf(inode) ==
    ParsePath([i \in 1..Min(inode.size, superblock.block_size) |->
                  data_blocks[inode.data_block_indices[1] + 1][i].v])

\* resolving from directory p the target t of a link, followed by x, where
\* t names a directory
ThroughTarget(p, t, x) ==
    IF /\ ResolvePathToInodeId(Disk, p, superblock.root_inode_id, t) # None
       /\ GetInode(Disk, ResolvePathToInodeId(Disk, p, superblock.root_inode_id,
                                              t)).type = "DIRECTORY"
    THEN ResolvePathToInodeId(Disk, p, superblock.root_inode_id,
                              [t EXCEPT !.comps = @ \o <<x>>])
    ELSE None

\* C12: when a non-terminal path component names a symbolic link whose
\* target is an existing directory d that has an entry x, resolving
\* "link/x" from the directory holding the link returns the inode id of
\* d/x, the target being resolved against that directory when it is
\* relative and from the root when it is absolute.
C12_ResolveFollowsLinks ==
    is_formatted =>
        \A p \in DirectoryIds, l \in Names, x \in Names :
            (/\ IsLink(p, l)
             /\ ThroughTarget(p, LinkTargetOf(GetInode(Disk, EntryTarget(p, l))),
                              x) # None)
            => ResolvePathToInodeId(Disk, p, superblock.root_inode_id,
                                    Path(FALSE, <<l, x>>))
                 = ThroughTarget(p, LinkTargetOf(GetInode(Disk, EntryTarget(p, l))),
                                 x)

\* create_symbolic_link(parent, name, target) has what it needs: a valid
\* name that parent, a readable directory with room for one more entry,
\* does not list, a free inode, a free block, and a target that fits a block
LinkCreatable(parent, name, target) ==
    /\ is_formatted
    /\ ~InvalidName(name)
    /\ parent \in DirectoryIds
    /\ ReadDirectoryEntries(Disk, parent).ok
    /\ EntryTarget(parent, name) = None
    /\ Len(EntriesOf(parent)) + 2 <= superblock.block_size
    /\ superblock.free_inodes_count > 0
    /\ superblock.free_blocks_count > 0
    /\ Len(Encode(target)) \in 1..superblock.block_size

\* resolving a path that ends at the link l of directory p gives the link
\* itself; resolving a path that goes on after it fails when the target of
\* the link does not exist or is the link itself
LinkIsTerminal(p, l) ==
    /\ ResolvePathToInodeId(Disk, p, superblock.root_inode_id, Path(FALSE, <<l>>))
         = EntryTarget(p, l)
    /\ ResolvePathToInodeId(Disk, p, superblock.root_inode_id,
                            LinkTargetOf(GetInode(Disk, EntryTarget(p, l))))
           \in {None, EntryTarget(p, l)}
       => \A x \in Names \cup {".", ".."} :
             ResolvePathToInodeId(Disk, p, superblock.root_inode_id,
                                  Path(FALSE, <<l, x>>)) = None

LinksAreTerminal ==
    is_formatted => \A p \in DirectoryIds, l \in Names :
                        IsLink(p, l) => LinkIsTerminal(p, l)

\* the outcome r of create_symbolic_link(parent, name, target) is a success
\* that left a link with that target under that name
LinkCreated(parent, name, target, r) ==
    /\ r.status = "ok"
    /\ r.ret # None
    /\ r.d.it[r.ret + 1].type = "SYMBOLIC_LINK"
    /\ r.d.it[r.ret + 1].size = Len(Encode(target))
    /\ Take(r.d.blk[r.d.it[r.ret + 1].data_block_indices[1] + 1],
            Len(Encode(target))) = Encode(target)
    /\ \E k \in DOMAIN ReadDirectoryEntries(r.d, parent).entries :
          ReadDirectoryEntries(r.d, parent).entries[k]
              = DirectoryEntry(name, r.ret, FALSE)

\* C13: in every reachable state, create_symbolic_link succeeds whether or
\* not its target exists, a link that points at itself included,
\* resolving a path whose last component is a link returns the inode id of
\* the link, and resolving a path that continues past a link whose target
\* does not exist or loops back to the link fails.
C13_DanglingAndLoopingLinks ==
    /\ \A uid \in Callers, parent \in InodeIds, name \in Names,
          target \in LinkTargets :
          LinkCreatable(parent, name, target)
          => LinkCreated(parent, name, target,
                         CreateSymbolicLink(Disk, uid, parent, name, target))
    /\ LinksAreTerminal

\* the path "b/b" was resolved, to failure, in a directory where b is a
\* symbolic link to itself
C13_Witness ==
    /\ last.op = "resolve_path"
    /\ last.args[2] = Path(FALSE, <<"b", "b">>)
    /\ last.ret = None
    /\ last.args[1] \in DirectoryIds
    /\ IsLink(last.args[1], "b")
    /\ LinkTargetOf(GetInode(Disk, EntryTarget(last.args[1], "b")))
         = ParsePath(<<2>>)

\* the walk of path from directory current_dir_inode_id, with its cost
WalkOf(current_dir_inode_id, path) ==
    ResolveWalk(Disk,
                IF path.abs THEN superblock.root_inode_id ELSE current_dir_inode_id,
                path.comps, 1, 0)

\* the walk w of path ended with the result that _resolve_path_to_inode_id
\* returns, an inode id or None, within the bounds on its cost
WalkEnds(path, ret, w) ==
    /\ w.ret = ret
    /\ ret \in {None} \cup 0..(superblock.total_inodes - 1)
    /\ w.steps <= Len(path.comps)
    /\ w.links <= SYMLINK_MAX_DEPTH

\* C14: in every reachable state, states with symbolic links that point at
\* themselves and directories whose ".." leads back to themselves
\* included, _resolve_path_to_inode_id ends for every path, paths of more
\* than SYMLINK_MAX_DEPTH components included, with an inode id or None,
\* after at most one turn per component and having met at most
\* SYMLINK_MAX_DEPTH symbolic links.
C14_ResolveTerminates ==
    is_formatted =>
        \A current_dir_inode_id \in InodeIds, path \in LinkPaths :
            WalkEnds(path,
                     ResolvePathToInodeId(Disk, current_dir_inode_id,
                                          superblock.root_inode_id, path),
                     WalkOf(current_dir_inode_id, path))

\* the path "b/b/.../b" of more than SYMLINK_MAX_DEPTH components was
\* resolved, to failure, in a directory where b is a symbolic link to
\* itself
C14_Witness ==
    /\ last.op = "resolve_path"
    /\ last.args[2] = Path(FALSE, Repeat("b", SYMLINK_MAX_DEPTH + 1))
    /\ last.ret = None
    /\ last.args[1] \in DirectoryIds
    /\ IsLink(last.args[1], "b")
    /\ LinkTargetOf(GetInode(Disk, EntryTarget(last.args[1], "b")))
         = ParsePath(<<2>>)

\* the disk manager that load_disk_image returns for the image that
\* save_disk_image wrote of D is D: superblock, bitmaps, inode table, block
\* contents and is_formatted
ImageRoundTrip(D) ==
    /\ LoadDiskImage(SaveDiskImage(D)).ok
    /\ LoadDiskImage(SaveDiskImage(D)).d = D

\* C15: a disk that was formatted and then went through any calls, a
\* format_disk that fails included, is the disk that load_disk_image
\* returns after save_disk_image saved it.
C15_SaveLoadRoundTrip ==
    [][(is_formatted \/ is_formatted') => ImageRoundTrip(Disk)']_vars

\* the table entry that superblock.root_inode_id names
RootInode == inode_table[superblock.root_inode_id + 1]

\* C17: whenever superblock.root_inode_id is set, it names an allocated
\* inode of type DIRECTORY, also after a format_disk that failed and after
\* the disk was saved and loaded again.
C17_RootIsDirectory ==
    superblock.root_inode_id # None =>
        /\ superblock.root_inode_id \in 0..(superblock.total_inodes - 1)
        /\ ~inode_bitmap[superblock.root_inode_id + 1]
        /\ RootInode.type = "DIRECTORY"

\* the root directory of a fresh disk: inode 0, a directory of uid 0 with
\* permissions 0o755 and link count 2, whose one block holds exactly the
\* entries "." and "..", both naming inode 0
FreshRoot ==
    /\ superblock.root_inode_id = 0
    /\ inode_table[1].id = 0
    /\ inode_table[1].type = "DIRECTORY"
    /\ inode_table[1].owner_uid = ROOT_UID
    /\ inode_table[1].permissions = ROOT_DIR_PERMISSIONS
    /\ inode_table[1].link_count = 2
    /\ inode_table[1].size = 2
    /\ inode_table[1].blocks_count = 1
    /\ inode_table[1].data_block_indices = <<0>>
    /\ inode_table[1].indirect_block_indices = <<>>
    /\ ReadDirectoryEntries(Disk, 0)
         = [ok |-> TRUE, entries |-> <<DirectoryEntry(".", 0, FALSE),
                                       DirectoryEntry("..", 0, FALSE)>>]

\* the disk is the fresh disk of num_inodes inodes and num_blocks blocks of
\* block_size: the root and nothing else
FreshDisk(num_inodes, num_blocks, block_size) ==
    /\ is_formatted
    /\ superblock.total_inodes = num_inodes
    /\ superblock.total_blocks = num_blocks
    /\ superblock.block_size = block_size
    /\ superblock.free_inodes_count = num_inodes - 1
    /\ superblock.free_blocks_count = num_blocks - 1
    /\ inode_bitmap = [i \in 1..num_inodes |-> i # 1]
    /\ data_block_bitmap = [b \in 1..num_blocks |-> b # 1]
    /\ FreshRoot
    /\ \A i \in 2..num_inodes : inode_table[i] = NullInode
    /\ Len(inode_table) = num_inodes
    /\ Len(data_blocks) = num_blocks
    /\ \A c \in 4..block_size : data_blocks[1][c] = ZeroCell
    /\ \A b \in 2..num_blocks : data_blocks[b] = Repeat(ZeroCell, block_size)

\* C16: a format_disk(num_inodes, num_blocks, block_size) that succeeds
\* leaves, whatever the state before, exactly the fresh disk of these
\* arguments (root inode 0 with "." and "..", everything else free, both
\* free counts one less than the totals); formatting a second time
\* therefore leaves what formatting once left.
C16_FormatLeavesFreshDisk ==
    (last.op = "format_disk" /\ last.status = "ok")
        => FreshDisk(last.args[1], last.args[2], last.args[3])

\* format_disk succeeded on a disk that had a file open
C16_Witness ==
    /\ last.op = "format_disk"
    /\ last.status = "ok"
    /\ \E fd \in DOMAIN open_files : open_files[fd].ref # 0

\* what a failed creation has to leave alone: both bitmaps, both free
\* counts, the inode table (and with it every link_count) and the entries
\* stored for every directory
Allocation ==
    <<inode_bitmap, data_block_bitmap, superblock.free_inodes_count,
      superblock.free_blocks_count, inode_table,
      [d \in InodeIds |-> ReadDirectoryEntries(Disk, d)]>>

\* C18: a make_directory or create_file that returns failure (no free
\* inode, no free block, the entries of the parent no longer fit in its
\* block, or any other reason) leaves both bitmaps, both free counts, the
\* inode table and the stored entries and link_count of the parent as they
\* were before the call.
C18_FailedCreateRollsBack ==
    [][(last'.op \in {"make_directory", "create_file"} /\ last'.status = "fail")
          => Allocation' = Allocation]_vars

\* make_directory failed on a disk that has a free inode and no free block
C18_Witness ==
    /\ is_formatted
    /\ last.op = "make_directory"
    /\ last.status = "fail"
    /\ superblock.free_inodes_count > 0
    /\ superblock.free_blocks_count = 0

\* uid passes the write-permission check on the directory parent
MayWrite(uid, parent) == CheckPermission(inode_table[parent + 1], uid, "write")

\* C19: make_directory and create_file called by a uid that fails the
\* write-permission check on the parent directory return failure: a call
\* that succeeded was made by a uid that passes the check on its parent.
C19_CreateNeedsWritePermission ==
    (last.op \in {"make_directory", "create_file"} /\ last.status = "ok")
        => MayWrite(last.args[1], last.args[2])

\* parent is a directory that holds old_name and not yet new_name, a valid
\* name
RenamePre(parent, old_name, new_name) ==
    /\ parent \in DirectoryIds
    /\ ~InvalidName(new_name)
    /\ NameLen(new_name) <= MAX_NAME_LEN
    /\ ReadDirectoryEntries(Disk, parent).ok
    /\ FindEntry(EntriesOf(parent), old_name) # 0
    /\ FindEntry(EntriesOf(parent), new_name) = 0

\* C20: rename_item of a present old name to a valid new name that is not
\* yet present succeeds exactly when the caller passes the
\* write-permission check on the parent directory; a user who owns the
\* parent and has the owner write bit can rename, a user without write
\* permission is refused.
C20_RenameNeedsWritePermission ==
    \A uid \in Callers, parent \in InodeIds, old_name \in Names, new_name \in Names :
        RenamePre(parent, old_name, new_name)
        => (RenameItem(Disk, uid, parent, old_name, new_name).ok
              <=> MayWrite(uid, parent))

\* the names that rename_item is asked to rename: the ordinary names and
\* the two entries every directory has
OldNames == Names \cup {".", ".."}

\* what renaming forth and back must leave alone in disk D: the entries of
\* the directory parent in their order, every inode (link counts
\* included) and both bitmaps
RenameView(D, parent) ==
    <<ReadDirectoryEntries(D, parent), D.it, D.ibm, D.dbm>>

\* the disk after rename_item(a, b) and then rename_item(b, a) in parent
ThereAndBack(uid, parent, a, b) ==
    RenameItem(RenameItem(Disk, uid, parent, a, b).d, uid, parent, b, a).d

\* C21: for every directory and names a, b with a present and b absent,
\* rename_item(a, b) followed by rename_item(b, a) leaves the ordered entry
\* list of the directory, all link counts and both bitmaps as they were.
C21_RenameThereAndBack ==
    \A uid \in Callers, parent \in InodeIds, a \in OldNames, b \in Names :
        (/\ parent \in DirectoryIds
         /\ ReadDirectoryEntries(Disk, parent).ok
         /\ FindEntry(EntriesOf(parent), a) # 0
         /\ FindEntry(EntriesOf(parent), b) = 0)
        => RenameView(ThereAndBack(uid, parent, a, b), parent)
             = RenameView(Disk, parent)

\* the entries stored for every directory, and the blocks that store them
StoredEntries == <<[d \in InodeIds |-> ReadDirectoryEntries(Disk, d)], data_blocks>>

ChildrenOf(d) ==
    {EntriesOf(d)[k].inode_id :
        k \in {j \in DOMAIN EntriesOf(d) : EntriesOf(d)[j].name \notin {".", ".."}}}

\* name is, in the directory parent, a directory that still has children
HasChildren(parent, name) ==
    /\ parent \in DirectoryIds
    /\ FindEntry(EntriesOf(parent), name) # 0
    /\ EntryTarget(parent, name) \in DirectoryIds \ {parent}
    /\ ReadDirectoryEntries(Disk, EntryTarget(parent, name)).ok
    /\ ChildrenOf(EntryTarget(parent, name)) # {}

\* in disk D the inode i of the disk before, and the blocks it had, are free
Freed(D, i) ==
    /\ D.ibm[i + 1]
    /\ D.it[i + 1] = NullInode
    /\ \A b \in BlocksOf(inode_table[i + 1]) : D.dbm[b + 1]

\* remove_directory returned r for the directory t that parent lists: it
\* succeeded, t and its children are free, the parent lists it no longer
\* and has one link less
RemovedWithChildren(parent, name, t, r) ==
    /\ r.ok
    /\ Freed(r.d, t)
    /\ \A c \in ChildrenOf(t) : Freed(r.d, c)
    /\ FindEntry(ReadDirectoryEntries(r.d, parent).entries, name) = 0
    /\ r.d.it[parent + 1].link_count = inode_table[parent + 1].link_count - 1

\* C23: remove_directory on a directory that still has children succeeds:
\* afterwards the inodes and blocks of the directory and of its
\* descendants are free, the parent no longer has the entry and the
\* link_count of the parent is one less.
C23_RemoveDirectoryWithChildren ==
    \A uid \in Callers, parent \in InodeIds, name \in Names :
        HasChildren(parent, name)
        => RemovedWithChildren(parent, name, EntryTarget(parent, name),
                               RemoveDirectory(Disk, uid, parent, name))

\* what the path of an open_file resolves to in the session, and the
\* directory in which open_file would create it
Resolved(path) ==
    ResolvePathToInodeId(Disk, cwd, superblock.root_inode_id, path)
ParentOf(path) ==
    ResolvePathToInodeId(Disk, cwd, superblock.root_inode_id,
                         ParentPathForCreation(path))
LastName(path) == path.comps[Len(path.comps)]

\* a session is open on a disk that has a root
InSession ==
    current_user # None /\ cwd # None /\ superblock.root_inode_id # None

\* the path names no inode and its parent path names a directory
Missing(path) ==
    /\ Resolved(path) = None
    /\ path.comps # <<>>
    /\ ParentOf(path) \in DirectoryIds

\* create_file can add name to the directory: no entry of the directory has
\* that name, the block has room for one more entry with a short name, and
\* an inode is free
RoomFor(parent, name) ==
    /\ superblock.free_inodes_count > 0
    /\ FindEntry(EntriesOf(parent), name) = 0
    /\ Len(PickleEntries(EntriesOf(parent))) < superblock.block_size

\* open_file with outcome r created the file name in parent: a new FILE
\* inode of size 0 without blocks, named by exactly one entry of parent
OpenedNew(parent, name, r) ==
    /\ r.ok
    /\ inode_table[r.inode_id + 1] = NullInode
    /\ r.d.it[r.inode_id + 1].type = "FILE"
    /\ r.d.it[r.inode_id + 1].size = 0
    /\ r.d.it[r.inode_id + 1].blocks_count = 0
    /\ r.d.it[r.inode_id + 1].data_block_indices = <<>>
    /\ Cardinality({k \in DOMAIN ReadDirectoryEntries(r.d, parent).entries :
                       ReadDirectoryEntries(r.d, parent).entries[k].name = name}) = 1
    /\ ReadDirectoryEntries(r.d, parent).entries[
           FindEntry(ReadDirectoryEntries(r.d, parent).entries, name)].inode_id
         = r.inode_id

\* open_file with outcome r failed and left the disk as it was
OpenRefused(r) == ~r.ok /\ r.d = Disk

\* the three cases of open_file for one path and mode; create says in
\* which directories the creating modes have to create the file
OpenCases(path, mode_str, r, create) ==
    /\ (Resolved(path) = None /\ mode_str \in {"r", "r+"}) => OpenRefused(r)
    /\ Resolved(path) \in DirectoryIds => OpenRefused(r)
    /\ (Missing(path) /\ mode_str \in {"w", "a"} /\ create)
          => OpenedNew(ParentOf(path), LastName(path), r)

Truncated(f_id, f, r) ==
    /\ r.ok
    /\ \A b \in BlocksOf(f) : r.d.dbm[b + 1]
    /\ r.d.it[f_id + 1].data_block_indices = <<>>
    /\ r.d.it[f_id + 1].indirect_block_indices = <<>>
    /\ r.d.it[f_id + 1].double_indirect_block_indices = <<>>
    /\ r.d.it[f_id + 1].size = 0
    /\ r.d.it[f_id + 1].blocks_count = 0
    /\ r.d.sb.free_blocks_count = superblock.free_blocks_count + f.blocks_count

\* the offset open_file gives the new descriptor of file f_id
NewOffset(f_id, mode_str, r) ==
    OpenFileEntry(f_id, ParseOpenMode(mode_str), r.d.it[f_id + 1].size).offset

\* open_file of the existing file f_id, with inode f, in one mode
OpenExisting(f_id, f, mode_str, r) ==
    /\ (mode_str = "w" /\ f.size > 0) => Truncated(f_id, f, r)
    /\ mode_str # "w" => (r.ok /\ r.d = Disk)
    /\ r.ok => NewOffset(f_id, mode_str, r) = (IF mode_str = "a" THEN f.size ELSE 0)

\* C25: open_file in WRITE mode on an existing file that holds data frees
\* every block of the file, empties its block map and sets size and
\* blocks_count to 0, free_blocks_count rising by the file's previous block
\* count; in the other modes it changes neither the map nor the size; the
\* new descriptor's offset is the file size for APPEND and 0 otherwise.
C25_OpenWriteTruncates ==
    InSession =>
        \A path \in Paths, mode_str \in ModeStrs :
            (/\ Resolved(path) # None
             /\ inode_table[Resolved(path) + 1].type = "FILE")
            => OpenExisting(Resolved(path), inode_table[Resolved(path) + 1],
                            mode_str,
                            OpenFileOp(Disk, current_user, cwd, path, mode_str))

\* the bytes of the blocks of a block map, in the order of the map
RECURSIVE BytesOfBlocks(_, _)
BytesOfBlocks(D, ids) ==
    IF ids = <<>> THEN <<>>
    ELSE ReadBlock(D, Head(ids)) \o BytesOfBlocks(D, Tail(ids))

\* the lengths asked of read_file, 0 and a length past the end included
ReadLens == (ReadSizes \ {-1}) \cup {0}

\* the number of bytes a read of n bytes at offset off of file X has to
\* return
ReadCount(X, off, n) == IF off >= X.size THEN 0 ELSE Min(n, X.size - off)

\* read_file with outcome r returned the cnt bytes of X that follow off
ReadExactly(X, off, cnt, r) ==
    /\ r.ok
    /\ Len(r.data) = cnt
    /\ cnt > 0 => off + cnt <= Len(BytesOfBlocks(Disk, X.data_block_indices))
    /\ cnt > 0 => r.data = SubSeq(BytesOfBlocks(Disk, X.data_block_indices),
                                  off + 1, off + cnt)
    /\ r.offset = off + cnt

\* the descriptors on which read_file reads
ReadableFds ==
    {fd \in DOMAIN open_files :
        open_files[fd].mode \in {"READ", "READ_WRITE", "APPEND"}}

\* C26: read_file(fd, n) with n >= 0 on a readable descriptor returns
\* exactly min(n, size - offset) bytes, the file's bytes from the offset on,
\* and advances the offset by that count; at or past the end of the file it
\* returns an empty result with success and leaves the offset unchanged.
C26_ReadReturnsFileBytes ==
    current_user # None =>
        \A fd \in ReadableFds, n \in ReadLens :
            ReadExactly(InodeRef(Disk, detached, open_files[fd]),
                        open_files[fd].offset,
                        ReadCount(InodeRef(Disk, detached, open_files[fd]),
                                  open_files[fd].offset, n),
                        ReadFileOp(Disk, InodeRef(Disk, detached, open_files[fd]),
                                   open_files[fd].offset, n))

\* the step is a read_file or a write_file that returned success through a
\* descriptor opened in one of the modes
SucceedsIn(op, modes) ==
    (last'.op = op /\ last'.status = "ok")
        => (/\ last'.args[1] \in DOMAIN open_files
            /\ open_files[last'.args[1]].mode \in modes)

\* the step is a read_file that failed, or a write_file refused before it
\* wrote anything
Refused ==
    \/ last'.op = "read_file" /\ last'.status = "fail"
    \/ last'.op = "write_file" /\ last'.status = "fail" /\ last'.ret = None

\* C27: read_file succeeds only on descriptors opened in READ or READ_WRITE
\* mode and write_file only on descriptors opened in WRITE, APPEND or
\* READ_WRITE mode; a call in the wrong mode, with a descriptor that is not
\* open, or a read of negative length fails and changes neither the
\* descriptor's offset nor the file's size, block map or content.
C27_ModeChecks ==
    [][/\ SucceedsIn("read_file", {"READ", "READ_WRITE"})
       /\ SucceedsIn("write_file", {"WRITE", "APPEND", "READ_WRITE"})
       /\ Refused => (UNCHANGED diskVars /\ UNCHANGED sessVars)]_vars

\* the step is an open_file that returned fd, the smallest number that was
\* no descriptor, and gave it to a new entry beside the entries there were
OpenedSmallest(fd) ==
    /\ fd >= 0
    /\ fd \notin DOMAIN open_files
    /\ \A g \in 0..(fd - 1) : g \in DOMAIN open_files
    /\ DOMAIN open_files' = DOMAIN open_files \cup {fd}
    /\ \A g \in DOMAIN open_files : open_files'[g] = open_files[g]

\* C28: every successful open_file returns the smallest non-negative integer
\* that is no open descriptor of the session, so that two open descriptors
\* never share a number, and the number released by close_file(k) is free
\* for the next open, which returns it unless a smaller one is free.
C28_SmallestFreeFd ==
    /\ []((last.op = "close_file" /\ last.status = "ok")
            => last.args[1] \notin DOMAIN open_files)
    /\ [][(last'.op = "open_file" /\ last'.status = "ok")
              => OpenedSmallest(last'.ret)]_vars

\* open_file returned 0, closed before, while descriptor 1 is open
C28_Witness ==
    /\ last.op = "open_file"
    /\ last.status = "ok"
    /\ last.ret = 0
    /\ 1 \in DOMAIN open_files

\* the step is a successful read_file, write_file or close_file
UsesFd ==
    /\ last'.op \in {"read_file", "write_file", "close_file"}
    /\ last'.status = "ok"

\* C29: after logout the session has no current user, no cwd and no open
\* descriptor; a read_file, write_file or close_file succeeds only with a
\* descriptor open in the current session, so the descriptors of a session
\* that logged out fail, also after a later login, which starts without
\* descriptors; the first open_file of a session returns descriptor 0.
C29_LogoutDiscardsDescriptors ==
    /\ [](current_user = None => (cwd = None /\ open_files = <<>>))
    /\ []((last.op \in {"login", "logout"} /\ last.status = "ok")
            => open_files = <<>>)
    /\ [][UsesFd => (/\ current_user # None
                     /\ last'.args[1] \in DOMAIN open_files)]_vars
    /\ [][(last'.op = "open_file" /\ last'.status = "ok" /\ open_files = <<>>)
              => last'.ret = 0]_vars

\* a logout discarded open descriptors
C29_Witness ==
    /\ last.op = "logout"
    /\ last.status = "ok"
    /\ last.ret > 0
    /\ current_user = None

\* the cwd of a new session of user: the home inode of the record when it
\* has one, the root inode given to login otherwise
HomeOrRoot(user, root_inode_id) ==
    IF user.home_inode_id # None THEN user.home_inode_id ELSE root_inode_id

\* the user records and the root inodes login may be given
UserRecords == [uid : {ROOT_UID, GUEST_UID}, home_inode_id : Homes]
RootIds == {None, 0}

AddedUsers == DOMAIN users \ DOMAIN DEFAULT_USERS_DATA

\* C31: after any sequence of create_user calls, with or without an
\* explicit uid, every user added by create_user has a uid that is at least
\* 1000, is not 0 and differs from the uid of every other user; a call with
\* a username that already exists fails and leaves the user table unchanged.
C31_CreatedUidsAreUnique ==
    /\ [](\A n \in AddedUsers :
             /\ users[n].uid >= GUEST_UID
             /\ users[n].uid # ROOT_UID
             /\ \A o \in DOMAIN users \ {n} : users[o].uid # users[n].uid)
    /\ [][(last'.op = "create_user" /\ last'.status = "ok")
              => last'.args[1] \notin DOMAIN users]_vars
    /\ [][(last'.op = "create_user" /\ last'.status = "fail")
              => UNCHANGED users]_vars

\* the three permission checks of the core give uid the same answer ans
\* for operation on inode
ChecksAnswer(inode, uid, operation, ans) ==
    /\ CheckPermission(inode, uid, operation) = ans
    /\ CheckAccess(inode, uid, operation) = ans
    /\ FileOpsCheckPermissions(inode, uid, operation) = ans

\* C32: for every inode, uid and operation among read, write, execute and
\* delete, each permission check of the core grants uid 0, and decides for
\* the owner of the inode from the owner triad alone: an owner whose owner
\* bit is clear is refused whatever the other triad says, and the three
\* functions give an owner the same answer.
C32_OwnerTriadDecides ==
    \A i \in TableIds, operation \in Operations :
        /\ ChecksAnswer(inode_table[i + 1], ROOT_UID, operation, TRUE)
        /\ ChecksAnswer(inode_table[i + 1], inode_table[i + 1].owner_uid,
                        operation,
                        \/ inode_table[i + 1].owner_uid = ROOT_UID
                        \/ CheckOwnerPermission(inode_table[i + 1], operation))

\* the step is a successful call of op
Did(op) == last'.op = op /\ last'.status = "ok"

\* the caller of the step is root or the owner of the inode it names
ByOwnerOrRoot ==
    \/ last'.args[1] = ROOT_UID
    \/ last'.args[1] = inode_table[last'.args[2] + 1].owner_uid

\* C33: chmod succeeds only for the owner of the inode or uid 0 and only
\* with a value in 0..0o777, chown only for uid 0, chgrp only for the owner
\* or uid 0; a refused call leaves permissions, owner and group unchanged;
\* after any sequence of chmod, chown, chgrp, set_permission and
\* change_owner the permissions of every inode fit in 9 bits.
C33_PermissionChanges ==
    /\ [][Did("chmod") => (ByOwnerOrRoot /\ last'.args[3] \in 0..511)]_vars
    /\ [][Did("chown") => last'.args[1] = ROOT_UID]_vars
    /\ [][Did("chgrp") => ByOwnerOrRoot]_vars
    /\ [][(last'.op \in {"chmod", "chown", "chgrp", "set_permission", "change_owner"}
            /\ last'.status = "fail") => UNCHANGED diskVars]_vars
    /\ [](\A i \in TableIds : inode_table[i + 1].permissions \in 0..511)

\* the step is a call of one of the four operations that rewrite a file
Rewrites ==
    last'.op \in {"encrypt_file", "decrypt_file", "compress_file", "decompress_file"}

\* C34: encrypt_file, decrypt_file, compress_file and decompress_file change
\* a file only when the caller is the owner of the file or uid 0: a call by
\* another uid fails and leaves the content and the flags of the file
\* unchanged, whatever the permission bits of the file are.
C34_OnlyOwnerRewrites ==
    [][(Rewrites /\ last'.args[1] \notin
                       {ROOT_UID, GetInode(Disk, last'.args[2]).owner_uid})
          => (last'.status = "fail" /\ UNCHANGED diskVars)]_vars

\* what a file is: its stored bytes, its size, its block map and its flags
FileState(D, inode_id) ==
    IF IsNone(GetInode(D, inode_id)) THEN <<>>
    ELSE <<ReadFileContent(D, inode_id), GetInode(D, inode_id).size,
           GetInode(D, inode_id).data_block_indices,
           GetInode(D, inode_id).is_compressed,
           GetInode(D, inode_id).is_encrypted>>

\* C40: whenever compress_file, decompress_file, encrypt_file or
\* decrypt_file returns failure, the stored bytes, the size, the block map
\* and the flags of the file are what they were before the call, also for
\* an empty file and when the allocation of a block fails during the
\* rewrite.
C40_FailureChangesNothing ==
    [][\A inode_id \in InodeIds :
          (Rewrites /\ last'.status = "fail" /\ last'.args[2] = inode_id)
             => FileState(Disk, inode_id)' = FileState(Disk, inode_id)]_vars

\* name is an entry of directory parent for an allocated inode of this type
RefersTo(parent, name, type) ==
    /\ parent \in DirectoryIds
    /\ EntryTarget(parent, name) # None
    /\ ~IsNone(GetInode(Disk, EntryTarget(parent, name)))
    /\ GetInode(Disk, EntryTarget(parent, name)).type = type

\* the outcome r is a failure that leaves the disk as it is
RefusedUnchanged(r) == ~r.ok /\ r.d = Disk

\* C35: delete_file of a name that refers to a directory, remove_directory
\* of a name that refers to a file, and create_hard_link to a directory
\* inode each return failure and leave the directory entries, the link
\* counts, the bitmaps and the free counts unchanged.
C35_WrongTypeRefused ==
    \A uid \in Callers, parent \in InodeIds, name \in Names :
        /\ RefersTo(parent, name, "DIRECTORY")
             => RefusedUnchanged(DeleteFile(Disk, uid, parent, name))
        /\ RefersTo(parent, name, "FILE")
             => RefusedUnchanged(RemoveDirectory(Disk, uid, parent, name))
        /\ \A target \in DirectoryIds :
                RefusedUnchanged(CreateHardLink(Disk, uid, parent, name, target))

\* a directory holds a file and a directory, and the call refused last is
\* one of the three
C35_Witness ==
    /\ \E parent \in DirectoryIds :
          /\ \E name \in Names : RefersTo(parent, name, "DIRECTORY")
          /\ \E name \in Names : RefersTo(parent, name, "FILE")
    /\ last.op \in {"delete_file", "remove_directory", "create_hard_link"}
    /\ last.status = "fail"

\* C36: create_symbolic_link with a target longer than block_size bytes, or
\* with a link name longer than 255 characters, returns a failure result
\* instead of raising an exception, and leaves both bitmaps, both free
\* counts, the inode table and the entries of the parent unchanged.
C36_SymlinkTooLongRefused ==
    \A uid \in Callers, parent \in InodeIds, name \in Names \cup {LongName},
       target \in Targets :
        (is_formatted /\ (\/ Len(Encode(target)) > superblock.block_size
                          \/ NameLen(name) > MAX_NAME_LEN))
           => /\ CreateSymbolicLink(Disk, uid, parent, name, target).status = "fail"
              /\ CreateSymbolicLink(Disk, uid, parent, name, target).d = Disk

\* read_file of the whole of file X returns the bytes of all its blocks,
\* those of the indirect blocks included, up to its size
ReadsWhole(X) ==
    ReadFileOp(Disk, X, 0, X.size).data
        = Take(BytesOfBlocks(Disk, GetFileBlockIndices(Disk, X)), X.size)

\* C37: in every reachable state the direct block list of each inode holds
\* at most 12 block ids: a file that needs more than 12 blocks, grown by
\* write_file or by allocate_file_blocks, keeps its thirteenth and later
\* blocks in indirect blocks, and read_file still reads them.
C37_DirectListCapped ==
    /\ \A i \in TableIds :
          Len(inode_table[i + 1].data_block_indices) <= DIRECT_BLOCK_CAP
    /\ current_user # None =>
          \A fd \in ReadableFds :
              ReadsWhole(InodeRef(Disk, detached, open_files[fd]))

\* the entry of an open descriptor holds the inode that the table has at
\* its inode_id, and that inode is allocated
RefersToTable(e) ==
    /\ e.ref = 0
    /\ e.inode_id < Len(inode_table)
    /\ inode_table[e.inode_id + 1].type # "NONE"

\* the blocks that the step marks allocated
NewlyAllocated ==
    {b \in 0..(Len(data_block_bitmap) - 1) :
        /\ data_block_bitmap[b + 1]
        /\ b < Len(data_block_bitmap')
        /\ ~data_block_bitmap'[b + 1]}

\* C38: in every reachable state each open descriptor of the session refers
\* to an inode that is allocated, inode_table[entry.inode_id] being the very
\* inode the entry holds, also after a format_disk made while the descriptor
\* is open; so write_file through an open descriptor never allocates a block
\* that no inode of the table reaches.
C38_DescriptorsReferToTable ==
    /\ [](\A fd \in DOMAIN open_files : RefersToTable(open_files[fd]))
    /\ [][last'.op = "write_file" => NewlyAllocated \subseteq ReachableBlocks']_vars

\* C39: in every reachable state with a logged-in user, the cwd of the
\* session names an allocated inode of type DIRECTORY, also after
\* remove_directory removes the directory that is the cwd of the session.
C39_CwdIsDirectory ==
    (current_user # None /\ is_formatted /\ cwd # None) =>
        /\ cwd \in 0..(Len(inode_table) - 1)
        /\ inode_table[cwd + 1].type = "DIRECTORY"

====
